---- MODULE Spec2Model ----
(***************************************************************************)
(* Calendar server of edt-utcapitole-exporter (server.ts): the ICS parser, *)
(* the merge engine, the export locator and the request handler.           *)
(*                                                                         *)
(* Text model.  A JavaScript string is a sequence of tokens.  A token is   *)
(* either one of the literals the code's regular expressions and           *)
(* comparisons look for ("BEGIN:VEVENT", "END:VEVENT", "UID:",             *)
(* "X-WR-CALNAME:"), a line feed, a carriage return, a space, or a chunk   *)
(* of ordinary characters that holds no white space, no line terminator    *)
(* and none of the literals.  split, trim, join, match and replace are     *)
(* computed on token sequences exactly as JavaScript computes them on the  *)
(* characters.                                                             *)
(***************************************************************************)
EXTENDS Integers, Sequences, FiniteSets, TLC

LF == "LF"
CR == "CR"
SP == "SP"
BEGIN_VEVENT == "BEGIN:VEVENT"
END_VEVENT == "END:VEVENT"
UID_FIELD == "UID:"
CALNAME_FIELD == "X-WR-CALNAME:"

\* ECMAScript LineTerminator (what "." refuses and "$" with /m stops at).
IsLineTerminator(t) == t \in {LF, CR}
\* ECMAScript WhiteSpace or LineTerminator (what trim() strips).
IsWhiteSpace(t) == t \in {SP, LF, CR}

---------------------------------------------------------------------------
(* String.prototype.split('\n'), Array.prototype.join, String.prototype.trim *)

\* String.prototype.slice(a - 1, b): the tokens a..b, none when b < a.
Slice(s, a, b) == [k \in 1..(b - a + 1) |-> s[a + k - 1]]

RECURSIVE SplitAcc(_, _, _, _)
SplitAcc(text, i, cur, acc) ==
    IF i > Len(text) THEN Append(acc, cur)
    ELSE IF text[i] = LF THEN SplitAcc(text, i + 1, <<>>, Append(acc, cur))
    ELSE SplitAcc(text, i + 1, Append(cur, text[i]), acc)

split(text) == SplitAcc(text, 1, <<>>, <<>>)

RECURSIVE join(_, _)
join(parts, sep) ==
    IF parts = <<>> THEN <<>>
    ELSE IF Len(parts) = 1 THEN parts[1]
    ELSE parts[1] \o sep \o join(Tail(parts), sep)

RECURSIVE trimStart(_)
trimStart(s) ==
    IF s # <<>> /\ IsWhiteSpace(Head(s)) THEN trimStart(Tail(s)) ELSE s

RECURSIVE trimEnd(_)
trimEnd(s) ==
    IF s # <<>> /\ IsWhiteSpace(s[Len(s)]) THEN trimEnd(Slice(s, 1, Len(s) - 1))
    ELSE s

trim(s) == trimEnd(trimStart(s))

\* Least index i >= from with text[i] = tok, or 0.
RECURSIVE IndexOf(_, _, _)
IndexOf(text, tok, from) ==
    IF from > Len(text) THEN 0
    ELSE IF text[from] = tok THEN from
    ELSE IndexOf(text, tok, from + 1)

\* The index after the longest run of non-line-terminators starting at from
\* (what ".*" consumes, and where "$" with the m flag first matches).
RECURSIVE LineEnd(_, _)
LineEnd(text, from) ==
    IF from > Len(text) \/ IsLineTerminator(text[from]) THEN from
    ELSE LineEnd(text, from + 1)

NoMatch == [matched |-> FALSE, group |-> <<>>]

---------------------------------------------------------------------------
(* parseICS *)

\* The mutant of parseLine: a BEGIN:VEVENT line met inside an event is added
\* to the event instead of starting a new one.
parseLineKeepOpen(st, line) ==
    IF trim(line) = <<BEGIN_VEVENT>>
    THEN [events |-> st.events,
          currentEvent |-> IF st.inEvent THEN Append(st.currentEvent, line) ELSE <<line>>,
          inEvent |-> TRUE]
    ELSE IF trim(line) = <<END_VEVENT>>
    THEN [events |-> Append(st.events, join(Append(st.currentEvent, line), <<LF>>)),
          currentEvent |-> <<>>, inEvent |-> FALSE]
    ELSE IF st.inEvent
    THEN [events |-> st.events, currentEvent |-> Append(st.currentEvent, line),
          inEvent |-> TRUE]
    ELSE st

\* One iteration of the for loop over the lines.
parseLine(st, line) ==
    IF trim(line) = <<BEGIN_VEVENT>>
    THEN [events |-> st.events, currentEvent |-> <<line>>, inEvent |-> TRUE]
    ELSE IF trim(line) = <<END_VEVENT>>
    THEN [events |-> Append(st.events, join(Append(st.currentEvent, line), <<LF>>)),
          currentEvent |-> <<>>, inEvent |-> FALSE]
    ELSE IF st.inEvent
    THEN [events |-> st.events, currentEvent |-> Append(st.currentEvent, line),
          inEvent |-> TRUE]
    ELSE st

RECURSIVE parseLines(_, _, _)
parseLines(lines, i, st) ==
    IF i > Len(lines) THEN st.events
    ELSE parseLines(lines, i + 1, parseLine(st, lines[i]))

parseICS(icsContent) ==
    parseLines(split(icsContent), 1,
               [events |-> <<>>, currentEvent |-> <<>>, inEvent |-> FALSE])

---------------------------------------------------------------------------
(* mergeICS *)

\* icsContent.match(/^([\s\S]*?)BEGIN:VEVENT/m): "^" matches at index 0, the
\* lazy group grows to the first BEGIN:VEVENT; no match iff there is none.
headerMatch(icsContent) ==
    LET p == IndexOf(icsContent, BEGIN_VEVENT, 1)
    IN  IF p = 0 THEN NoMatch
        ELSE [matched |-> TRUE, group |-> Slice(icsContent, 1, p - 1)]

\* icsContent.match(/END:VEVENT([\s\S]*?)$/m): leftmost END:VEVENT; the lazy
\* group stops at the first position where "$" matches, which with the m flag
\* is before the next line terminator (or at the end of the input).
footerMatch(icsContent) ==
    LET p == IndexOf(icsContent, END_VEVENT, 1)
    IN  IF p = 0 THEN NoMatch
        ELSE [matched |-> TRUE,
              group |-> Slice(icsContent, p + 1, LineEnd(icsContent, p + 1) - 1)]

\* Least p >= from with text[p] = "UID:" followed by a non-line-terminator.
RECURSIVE UidStart(_, _)
UidStart(event, from) ==
    LET p == IndexOf(event, UID_FIELD, from)
    IN  IF p = 0 THEN 0
        ELSE IF p < Len(event) /\ ~IsLineTerminator(event[p + 1]) THEN p
        ELSE UidStart(event, p + 1)

\* event.match(/UID:(.+)/)
uidMatch(event) ==
    LET p == UidStart(event, 1)
    IN  IF p = 0 THEN NoMatch
        ELSE [matched |-> TRUE,
              group |-> Slice(event, p + 1, LineEnd(event, p + 1) - 1)]

\* The mutant of extractStep: the header and the footer are taken from every
\* file that has them, so the last one's stay.
extractStepLastHeader(acc, icsContent) ==
    LET hm == headerMatch(icsContent)
        fm == footerMatch(icsContent)
    IN  [allEvents |-> acc.allEvents \o parseICS(icsContent),
         header |-> IF hm.matched /\ hm.group # <<>> THEN hm.group ELSE acc.header,
         footer |-> IF fm.matched /\ fm.group # <<>> THEN fm.group ELSE acc.footer]

\* The first loop's body: events of one file, and the header and footer of the
\* files seen while header is still empty.
extractStep(acc, icsContent) ==
    LET hm == headerMatch(icsContent)
        fm == footerMatch(icsContent)
        first == acc.header = <<>>
    IN  [allEvents |-> acc.allEvents \o parseICS(icsContent),
         header |-> IF first /\ hm.matched /\ hm.group # <<>>
                    THEN hm.group ELSE acc.header,
         footer |-> IF first /\ fm.matched /\ fm.group # <<>>
                    THEN fm.group ELSE acc.footer]

RECURSIVE extractAll(_, _, _)
extractAll(icsFiles, i, acc) ==
    IF i > Len(icsFiles) THEN acc
    ELSE extractAll(icsFiles, i + 1, extractStep(acc, icsFiles[i]))

\* Math.random().toString() of the n-th call: a key that no earlier call and
\* no UID of the documents produced ("0." and n digits).
RandomKey(n) == <<"0.">> \o [k \in 1..n |-> "7"]

\* Map.prototype.has / set on the insertion-ordered Map<string, string>,
\* held as a sequence of [key, value] entries.
MapHas(m, key) == \E k \in 1..Len(m) : m[k].key = key

MapSet(m, key, value) ==
    IF MapHas(m, key)
    THEN [k \in 1..Len(m) |->
            IF m[k].key = key THEN [key |-> key, value |-> value] ELSE m[k]]
    ELSE Append(m, [key |-> key, value |-> value])

\* The mutants of dedupStep: the last copy of a UID wins; events without a UID
\* share one key.
dedupStepLastWins(uniqueEvents, event) ==
    LET um == uidMatch(event)
    IN  IF um.matched /\ um.group # <<>>
        THEN MapSet(uniqueEvents, trim(um.group), event)
        ELSE MapSet(uniqueEvents, RandomKey(Len(uniqueEvents) + 1), event)

dedupStepSharedKey(uniqueEvents, event) ==
    LET um == uidMatch(event)
    IN  IF um.matched /\ um.group # <<>>
        THEN IF ~MapHas(uniqueEvents, trim(um.group))
             THEN MapSet(uniqueEvents, trim(um.group), event)
             ELSE uniqueEvents
        ELSE MapSet(uniqueEvents, <<>>, event)

\* A copy of a UID already seen moves the UID's entry to the end of the Map
\* (delete, then set), the first copy kept.
dedupStepMoveToEnd(uniqueEvents, event) ==
    LET um == uidMatch(event)
        uid == trim(um.group)
        kept == CHOOSE k \in 1..Len(uniqueEvents) : uniqueEvents[k].key = uid
        others == [k \in 1..(Len(uniqueEvents) - 1) |->
                      IF k < kept THEN uniqueEvents[k] ELSE uniqueEvents[k + 1]]
    IN  IF um.matched /\ um.group # <<>>
        THEN IF ~MapHas(uniqueEvents, uid)
             THEN MapSet(uniqueEvents, uid, event)
             ELSE Append(others, uniqueEvents[kept])
        ELSE MapSet(uniqueEvents, RandomKey(Len(uniqueEvents) + 1), event)

\* The second loop's body.
dedupStep(uniqueEvents, event) ==
    LET um == uidMatch(event)
    IN  IF um.matched /\ um.group # <<>>
        THEN IF ~MapHas(uniqueEvents, trim(um.group))
             THEN MapSet(uniqueEvents, trim(um.group), event)
             ELSE uniqueEvents
        ELSE MapSet(uniqueEvents, RandomKey(Len(uniqueEvents) + 1), event)

RECURSIVE dedupAll(_, _, _)
dedupAll(allEvents, i, uniqueEvents) ==
    IF i > Len(allEvents) THEN uniqueEvents
    ELSE dedupAll(allEvents, i + 1, dedupStep(uniqueEvents, allEvents[i]))

MapValues(m) == [k \in 1..Len(m) |-> m[k].value]

\* header.replace(/(X-WR-CALNAME:).*/, `$1${mergedName}`): the first field only.
updateHeader(header, mergedName) ==
    LET p == IndexOf(header, CALNAME_FIELD, 1)
    IN  IF p = 0 THEN header
        ELSE Slice(header, 1, p) \o <<mergedName>>
             \o Slice(header, LineEnd(header, p + 1), Len(header))

mergeICS(icsFiles, mergedName) ==
    LET ex == extractAll(icsFiles, 1,
                         [allEvents |-> <<>>, header |-> <<>>, footer |-> <<>>])
        uniqueEvents == dedupAll(ex.allEvents, 1, <<>>)
    IN  updateHeader(ex.header, mergedName)
        \o join(MapValues(uniqueEvents), <<LF>>)
        \o <<LF>>
        \o ex.footer

---------------------------------------------------------------------------
(* The export tree read by getLatestICS.                                    *)

\* The dated directories export/<dateRange>/ that may exist.
MaxDated == 2

\* ISO date-range names, in increasing localeCompare order.
DateDirNames ==
    <<"2025-01-01_to_2025-01-07", "2025-02-01_to_2025-02-07",
      "2025-03-01_to_2025-03-07", "2025-04-01_to_2025-04-07">>

DatedDirs == {DateDirNames[k] : k \in 1..MaxDated}

\* A directory of export/ whose name holds no hyphen and that is no calendar.
ArchiveDir == "archive"

\* config.ts
CALENDAR_PATHS == <<"IMMFA1TD01", "IMMFA1CM01">>

CALENDAR_MERGES == [GroupeIMP |-> <<"IMMFA1TD01", "IMMFA1CM01">>]

\* The properties every object literal inherits from Object.prototype:
\* CALENDAR_MERGES[name] is truthy for them and is no array.
ObjectPrototypeKeys ==
    {"constructor", "toString", "valueOf", "hasOwnProperty", "__proto__"}

\* The calendars that may have a folder under export/ or under a dated directory.
CalDirs == {"IMMFA1TD01", "IMMFA1CM01", "GroupeIMP"}

VARIABLES exportFs, req, resp

svars == <<exportFs, req, resp>>

\* A second request, in flight at the same time as the first.
VARIABLES req2, resp2

cvars == <<req2, resp2>>

NoDir == [exists |-> FALSE, files |-> <<>>]

\* The document the exporter wrote for a calendar at a place of the tree.
ExportedDoc(calendarName, place) ==
    <<"BEGIN:VCALENDAR", LF, CALNAME_FIELD, calendarName, LF,
      BEGIN_VEVENT, LF, UID_FIELD, "u1", LF, "SUMMARY:", calendarName, SP, place, LF,
      END_VEVENT, LF,
      BEGIN_VEVENT, LF, UID_FIELD, calendarName, LF, END_VEVENT, LF,
      "END:VCALENDAR", LF>>

IcsFile(content, readable) ==
    [name |-> <<"calendar", ".ics">>, content |-> content, readable |-> readable]

OtherFile == [name |-> <<"notes", ".txt">>, content |-> <<"notes">>, readable |-> TRUE]

\* What a calendar's folder may be at a place: missing or not listable
\* (readdir rejects); without a .ics file;
\* with a .ics file (after another file); with an empty .ics file; with a
\* .ics file that cannot be read (EACCES, EISDIR).
DirOf(kind, calendarName, place) ==
    CASE kind = "none" -> NoDir
      [] kind = "noics" -> [exists |-> TRUE, files |-> <<OtherFile>>]
      [] kind = "ics" ->
            [exists |-> TRUE,
             files |-> <<OtherFile, IcsFile(ExportedDoc(calendarName, place), TRUE)>>]
      [] kind = "empty" -> [exists |-> TRUE, files |-> <<IcsFile(<<>>, TRUE)>>]
      [] kind = "unreadable" ->
            [exists |-> TRUE,
             files |-> <<IcsFile(ExportedDoc(calendarName, place), FALSE)>>]

\* root: export/ can be listed.  direct[c]: export/c/.  dated[d][c]:
\* export/d/c/.  archive: export/archive/IMMFA1TD01/.
\* Every case of the locator is varied on the first source calendar; the
\* second source and the folder named like the merged calendar vary in
\* whether they resolve.
ExportTree(td, cm, gr, dat, arc) ==
    [root |-> TRUE,
     direct |-> [c \in CalDirs |->
                    DirOf(IF c = "IMMFA1TD01" THEN td ELSE IF c = "IMMFA1CM01" THEN cm ELSE gr,
                          c, "direct")],
     dated |-> [d \in DatedDirs |-> [c \in CalDirs |->
                    DirOf(IF c = "IMMFA1TD01" THEN dat[d] ELSE "none", c, d)]],
     archive |-> DirOf(arc, "IMMFA1TD01", ArchiveDir)]

NoExportTree ==
    [root |-> FALSE,
     direct |-> [c \in CalDirs |-> NoDir],
     dated |-> [d \in DatedDirs |-> [c \in CalDirs |-> NoDir]],
     archive |-> NoDir]

ExportTrees ==
    { ExportTree(td, cm, gr, dat, arc) :
        td \in {"none", "noics", "ics", "empty", "unreadable"},
        cm \in {"none", "ics", "empty"},
        gr \in {"none", "ics"},
        dat \in [DatedDirs -> {"none", "noics", "ics", "unreadable"}],
        arc \in {"none", "ics"} }
    \cup {NoExportTree}

\* The folder's first .ics file can be read.
HasReadableIcs(dir) ==
    \E i \in 1..Len(dir.files) :
        /\ dir.files[i].name[Len(dir.files[i].name)] = ".ics"
        /\ dir.files[i].readable
        /\ \A j \in 1..(i - 1) : dir.files[j].name[Len(dir.files[j].name)] # ".ics"

\* readdir(join(exportDir, ...)) of a calendar folder.
DirectDir(fs, calendarName) ==
    IF fs.root /\ calendarName \in CalDirs THEN fs.direct[calendarName] ELSE NoDir

SubDir(fs, dir, calendarName) ==
    IF ~fs.root THEN NoDir
    ELSE IF dir \in DatedDirs /\ calendarName \in CalDirs THEN fs.dated[dir][calendarName]
    ELSE IF dir = ArchiveDir /\ calendarName = "IMMFA1TD01" THEN fs.archive
    ELSE NoDir

\* readdir(exportDir): the names under export/.
RootEntries(fs) ==
    {c \in CalDirs : fs.direct[c].exists}
    \cup {d \in DatedDirs : \E c \in CalDirs : fs.dated[d][c].exists}
    \cup (IF fs.archive.exists THEN {ArchiveDir} ELSE {})

\* dir.includes('-')
IncludesHyphen(dir) == dir \in {DateDirNames[k] : k \in 1..Len(DateDirNames)}

\* a.localeCompare(b) < 0 on the names of the model: digits sort before letters.
Rank(dir) ==
    IF \E k \in 1..Len(DateDirNames) : DateDirNames[k] = dir
    THEN CHOOSE k \in 1..Len(DateDirNames) : DateDirNames[k] = dir
    ELSE Len(DateDirNames) + 1

\* dirs.sort((a, b) => b.localeCompare(a)): greatest first.
RECURSIVE SortDescending(_)
SortDescending(dirs) ==
    IF dirs = {} THEN <<>>
    ELSE LET top == CHOOSE d \in dirs : \A e \in dirs : Rank(e) <= Rank(d)
         IN  <<top>> \o SortDescending(dirs \ {top})

---------------------------------------------------------------------------
(* getLatestICS *)

\* What awaiting the promise of getLatestICS gives: null, a document's text,
\* or a rejection (an exception that left the function).
Null == [isNull |-> TRUE, text |-> <<>>, rejected |-> FALSE]
Text(t) == [isNull |-> FALSE, text |-> t, rejected |-> FALSE]
Rejected == [isNull |-> TRUE, text |-> <<>>, rejected |-> TRUE]

\* f.endsWith('.ics')
EndsWithIcs(name) == name # <<>> /\ name[Len(name)] = ".ics"

\* files.find((f) => f.endsWith('.ics')): the index of the first one, or 0.
RECURSIVE FindIcs(_, _)
FindIcs(files, i) ==
    IF i > Len(files) THEN 0
    ELSE IF EndsWithIcs(files[i].name) THEN i
    ELSE FindIcs(files, i + 1)

\* The mutant of TryFolder: the rejection of readFile leaves the function.
TryFolderNoCatch(dir) ==
    LET i == FindIcs(dir.files, 1)
    IN  IF ~dir.exists \/ i = 0
        THEN [returned |-> FALSE, value |-> Null]
        ELSE IF ~dir.files[i].readable
        THEN [returned |-> TRUE, value |-> Rejected]
        ELSE [returned |-> TRUE, value |-> Text(dir.files[i].content)]

\* try { readdir; find; if (icsFile) return await readFile } catch {}:
\* returns the first .ics file's content, or falls through when the folder
\* cannot be listed, holds no .ics file, or the file cannot be read.
TryFolder(dir) ==
    LET i == FindIcs(dir.files, 1)
    IN  IF ~dir.exists \/ i = 0 \/ ~dir.files[i].readable
        THEN [returned |-> FALSE, value |-> Null]
        ELSE [returned |-> TRUE, value |-> Text(dir.files[i].content)]

\* Strategy 2's list: the entries of export/ whose name includes a hyphen,
\* sorted newest first.
DateDirectories(fs) == SortDescending({d \in RootEntries(fs) : IncludesHyphen(d)})

RECURSIVE SearchDated(_, _, _, _)
SearchDated(fs, dateDirectories, k, calendarName) ==
    IF k > Len(dateDirectories) THEN Null
    ELSE LET r == TryFolder(SubDir(fs, dateDirectories[k], calendarName))
         IN  IF r.returned THEN r.value
             ELSE SearchDated(fs, dateDirectories, k + 1, calendarName)

getLatestICS(fs, calendarName) ==
    LET direct == TryFolder(DirectDir(fs, calendarName))
    IN  IF direct.returned THEN direct.value
        ELSE IF ~fs.root THEN Null
        ELSE SearchDated(fs, DateDirectories(fs), 1, calendarName)

\* if (content): null and the empty string are falsy.
Truthy(content) == ~content.isNull /\ content.text # <<>>

---------------------------------------------------------------------------
(* The inputs and the result of a call of mergeICS on its own. *)
VARIABLES icsFiles, mergedName, mergedICS, mpc

mvars == <<icsFiles, mergedName, mergedICS, mpc>>

\* The input and the result of a call of parseICS on its own.
VARIABLES icsText, parsedEvents, ppc

pvars == <<icsText, parsedEvents, ppc>>

\* The exporter's main (index.ts): its position, the loop index i, the
\* results object, the browser, the error being thrown, and two records of
\* what happened: the calendars the loop entered and the calls made since the
\* last file was exported.
VARIABLES mainPc, calIdx, results, browser, error, attempted, log

evars == <<mainPc, calIdx, results, browser, error, attempted, log>>

\* A call of navigateTreePath on its own: the path, what the page's tree
\* shows at each step, and the outcome.
VARIABLES pathNodes, treeShown, navigated, npc

nvars == <<pathNodes, treeShown, navigated, npc>>

\* The export period of exportCalendar on its own: the clock, EXPORT_TIME
\* and the End Date field of the export dialog.
VARIABLES today, exportTime, endDateField, dpc

dvars == <<today, exportTime, endDateField, dpc>>

\* fs.copyFileSync(sourcePath, targetPath) in progress.
VARIABLES copying

xvars == <<evars, nvars, dvars, copying>>

NoResults == [successful |-> <<>>, failed |-> <<>>]

NoDate == [year |-> 0, month |-> 0, day |-> 0]

NoCopy == [pc |-> "off", name |-> "", source |-> <<>>, written |-> 0]

\* The values of the variables above while the exporter is not running.
ExporterOff ==
    /\ mainPc = "off"
    /\ calIdx = 0
    /\ results = NoResults
    /\ browser = "none"
    /\ error = <<>>
    /\ attempted = <<>>
    /\ log = <<>>

NavigateOff ==
    /\ pathNodes = <<>>
    /\ treeShown = <<>>
    /\ navigated = <<>>
    /\ npc = "off"

ExportPeriodOff ==
    /\ today = NoDate
    /\ exportTime = 0
    /\ endDateField = NoDate
    /\ dpc = "off"

CopyOff == copying = NoCopy

---------------------------------------------------------------------------
(* The request handler: serve({ fetch }) *)

Methods == {"GET", "POST"}

RequestNames == {"GroupeIMP", "IMMFA1TD01", "IMMFA1CM01", "UNKNOWN", "constructor"}

\* A request in flight.  lookups and mergeRan record the calls the handler
\* made: the results of getLatestICS in call order, and whether mergeICS ran.
\* url.pathname is a token sequence, "/calendar/" being one token.
Pathnames ==
    {<<"/">>, <<"/calendar/">>, <<"/health">>}
    \cup {<<"/calendar/", n>> : n \in RequestNames}

\* overlapped records that the handler took a step of this request while the
\* other request was suspended at an await.
IdleRequest ==
    [pc |-> "idle", method |-> "", pathname |-> <<>>, calendarName |-> "",
     sourceIdx |-> 0, icsContents |-> <<>>, lookups |-> <<>>, mergeRan |-> FALSE,
     overlapped |-> FALSE]

\* The request is suspended at an await of getLatestICS.
InFlight(r) == r.pc \in {"merge", "single"}

\* A response: the status, the body and the headers the handler sets.
\* Content-Type is the media type followed by its parameters, Cache-Control
\* the list of its directives; a header that is not set is empty.
NoResponse ==
    [status |-> 0, body |-> <<>>, contentType |-> <<>>, cacheControl |-> <<>>,
     allowOrigin |-> ""]

\* new Response(body, { status }): a string body gets the runtime's text/plain.
PlainResponse(status, body) ==
    [status |-> status, body |-> body,
     contentType |-> <<"text/plain", "charset=utf-8">>,
     cacheControl |-> <<>>, allowOrigin |-> ""]

HtmlResponse ==
    [status |-> 200,
     body |-> <<"<html>">> \o CALENDAR_PATHS \o <<"GroupeIMP">> \o <<"</html>">>,
     contentType |-> <<"text/html", "charset=utf-8">>,
     cacheControl |-> <<>>, allowOrigin |-> ""]

CalendarResponse(body) ==
    [status |-> 200, body |-> body,
     contentType |-> <<"text/calendar", "charset=utf-8">>,
     cacheControl |-> <<"no-cache", "no-store", "must-revalidate">>,
     allowOrigin |-> "*"]

\* What the runtime answers when fetch throws.
ErrorResponse ==
    [status |-> 500, body |-> <<"TypeError">>,
     contentType |-> <<"text/plain", "charset=utf-8">>,
     cacheControl |-> <<>>, allowOrigin |-> ""]

NotFoundMerged(calendarName) ==
    PlainResponse(404, <<"No calendars found for merged calendar ", "QUOTE",
                         calendarName, "QUOTE">>)

\* url.pathname.startsWith('/calendar/')
StartsWithCalendar(pathname) == pathname # <<>> /\ Head(pathname) = "/calendar/"

\* The mutant of CalendarNameOf: the missing name is turned into text.
CalendarNameOfStringified(pathname) ==
    IF Len(pathname) >= 2 THEN pathname[2] ELSE "undefined"

\* url.pathname.split('/calendar/')[1]
CalendarNameOf(pathname) == IF Len(pathname) >= 2 THEN pathname[2] ELSE ""

\* CALENDAR_MERGES[calendarName] on the object literal: the array of an own
\* key, the inherited member of Object.prototype (truthy, not iterable), or
\* undefined.
MergesLookup(calendarName) ==
    IF calendarName \in DOMAIN CALENDAR_MERGES
    THEN [kind |-> "array", sources |-> CALENDAR_MERGES[calendarName]]
    ELSE IF calendarName \in ObjectPrototypeKeys
    THEN [kind |-> "object", sources |-> <<>>]
    ELSE [kind |-> "undefined", sources |-> <<>>]

\* The mutants of MergedResponse: a merge without any source is served;
\* every source of the mapping is required.
MergedResponseNoCheck(icsContents, calendarName) ==
    [resp |-> CalendarResponse(mergeICS(icsContents, calendarName)), mergeRan |-> TRUE]

MergedResponseAllRequired(icsContents, calendarName) ==
    IF Len(icsContents) < Len(CALENDAR_MERGES[calendarName])
    THEN [resp |-> NotFoundMerged(calendarName), mergeRan |-> FALSE]
    ELSE [resp |-> CalendarResponse(mergeICS(icsContents, calendarName)),
          mergeRan |-> TRUE]

\* After the loop over the sources: 404 naming the merged calendar when none
\* resolved, else mergeICS is run and its document returned.
MergedResponse(icsContents, calendarName) ==
    IF Len(icsContents) = 0
    THEN [resp |-> NotFoundMerged(calendarName), mergeRan |-> FALSE]
    ELSE [resp |-> CalendarResponse(mergeICS(icsContents, calendarName)),
          mergeRan |-> TRUE]

\* if (content) icsContents.push(content)
PushContent(icsContents, content) ==
    IF Truthy(content) THEN Append(icsContents, content.text) ELSE icsContents

\* The mutant of SingleResponse: a single calendar is served without the
\* headers of the merged one.
SingleResponsePlain(content) ==
    IF Truthy(content) THEN PlainResponse(200, content.text)
    ELSE PlainResponse(404, <<"Calendar not found">>)

\* Serve single calendar.
SingleResponse(content) ==
    IF Truthy(content) THEN CalendarResponse(content.text)
    ELSE PlainResponse(404, <<"Calendar not found">>)

\* The mutant of ServeCalendarStep: a name that has an export of its own is
\* served from it before the merge mapping is looked at.
ServeCalendarStepRealFirst(started, calendarName) ==
    LET merges == MergesLookup(calendarName)
        named == [started EXCEPT !.calendarName = calendarName]
    IN  IF calendarName = ""
        THEN [req |-> [started EXCEPT !.pc = "done"],
              resp |-> PlainResponse(400, <<"Calendar name required">>)]
        ELSE IF merges.kind = "array" /\ ~Truthy(getLatestICS(exportFs, calendarName))
        THEN [req |-> [named EXCEPT !.pc = "merge", !.sourceIdx = 1], resp |-> NoResponse]
        ELSE [req |-> [named EXCEPT !.pc = "single"], resp |-> NoResponse]

\* if (url.pathname.startsWith('/calendar/')) { ... } up to its first await.
ServeCalendarStep(started, calendarName) ==
    LET merges == MergesLookup(calendarName)
        named == [started EXCEPT !.calendarName = calendarName]
    IN  IF calendarName = ""
        THEN [req |-> [started EXCEPT !.pc = "done"],
              resp |-> PlainResponse(400, <<"Calendar name required">>)]
        ELSE IF merges.kind = "array"
        THEN [req |-> [named EXCEPT !.pc = "merge", !.sourceIdx = 1], resp |-> NoResponse]
        ELSE IF merges.kind = "object"
        THEN \* for (const sourceName of sourceCalendars) throws a TypeError
             [req |-> [named EXCEPT !.pc = "done"], resp |-> ErrorResponse]
        ELSE [req |-> [named EXCEPT !.pc = "single"], resp |-> NoResponse]

\* The mutant of ReceiveStep: only GET is routed.
ReceiveStepGetOnly(method, pathname) ==
    LET started == [IdleRequest EXCEPT !.method = method, !.pathname = pathname]
    IN  IF method # "GET"
        THEN [req |-> [started EXCEPT !.pc = "done"],
              resp |-> PlainResponse(404, <<"Not Found">>)]
        ELSE IF pathname = <<"/">>
        THEN [req |-> [started EXCEPT !.pc = "done"], resp |-> HtmlResponse]
        ELSE IF ~StartsWithCalendar(pathname)
        THEN [req |-> [started EXCEPT !.pc = "done"],
              resp |-> PlainResponse(404, <<"Not Found">>)]
        ELSE ServeCalendarStep(started, CalendarNameOf(pathname))

\* fetch(req) up to its first await: the request's locals and, when the
\* handler returns before any await, the response.  req.method is never read.
ReceiveStep(method, pathname) ==
    LET started == [IdleRequest EXCEPT !.method = method, !.pathname = pathname]
    IN  IF pathname = <<"/">>
        THEN [req |-> [started EXCEPT !.pc = "done"], resp |-> HtmlResponse]
        ELSE IF ~StartsWithCalendar(pathname)
        THEN [req |-> [started EXCEPT !.pc = "done"],
              resp |-> PlainResponse(404, <<"Not Found">>)]
        ELSE ServeCalendarStep(started, CalendarNameOf(pathname))

\* One turn of the loop over the sources: await getLatestICS(sourceName); after
\* the last source, the response.  An await of a rejected promise throws, and
\* the runtime answers for the handler.
AwaitSourceStep(fs, r) ==
    LET sourceCalendars == MergesLookup(r.calendarName).sources
        sourceName == sourceCalendars[r.sourceIdx]
        content == getLatestICS(fs, sourceName)
        icsContents == PushContent(r.icsContents, content)
        looked == [r EXCEPT !.icsContents = icsContents,
                            !.lookups = Append(@, [name |-> sourceName,
                                                   content |-> content])]
        out == MergedResponse(icsContents, r.calendarName)
    IN  IF content.rejected
        THEN [req |-> [looked EXCEPT !.pc = "done"], resp |-> ErrorResponse]
        ELSE IF r.sourceIdx < Len(sourceCalendars)
        THEN [req |-> [looked EXCEPT !.sourceIdx = @ + 1], resp |-> NoResponse]
        ELSE [req |-> [looked EXCEPT !.pc = "done", !.mergeRan = out.mergeRan],
              resp |-> out.resp]

\* The mutant of AwaitSingleStep: the document served to an earlier request
\* of the same path is kept and served again.
AwaitSingleStepCached(fs, r) ==
    LET cached == req.pc = "done" /\ req.pathname = r.pathname /\ resp.status = 200
        icsContent == IF cached THEN Text(resp.body) ELSE getLatestICS(fs, r.calendarName)
        looked == [r EXCEPT !.pc = "done",
                            !.lookups = Append(@, [name |-> r.calendarName,
                                                   content |-> icsContent])]
    IN  [req |-> looked, resp |-> SingleResponse(icsContent)]

\* const icsContent = await getLatestICS(calendarName), and the response.
AwaitSingleStep(fs, r) ==
    LET icsContent == getLatestICS(fs, r.calendarName)
        looked == [r EXCEPT !.pc = "done",
                            !.lookups = Append(@, [name |-> r.calendarName,
                                                   content |-> icsContent])]
    IN  IF icsContent.rejected
        THEN [req |-> looked, resp |-> ErrorResponse]
        ELSE [req |-> looked, resp |-> SingleResponse(icsContent)]

\* The mutant of Handled: calendarName is kept in a variable of the module,
\* which the other request's handler has overwritten.
HandledSharedName(step, prev, other) ==
    [step.req EXCEPT !.overlapped = prev.overlapped \/ InFlight(other),
                     !.calendarName = IF step.req.pc = "single" /\ other.calendarName # ""
                                      THEN other.calendarName ELSE @]

\* The locals of a request after a step of its handler: those the step gives,
\* and nothing of the other request.
Handled(step, prev, other) ==
    [step.req EXCEPT !.overlapped = prev.overlapped \/ InFlight(other)]

\* The handler's steps on the first request.
Receive(method, pathname) ==
    /\ req.pc \in {"idle", "done"}
    /\ req' = Handled(ReceiveStep(method, pathname), IdleRequest, req2)
    /\ resp' = ReceiveStep(method, pathname).resp
    /\ UNCHANGED <<exportFs, cvars, mvars, pvars, xvars>>

AwaitSource ==
    /\ req.pc = "merge"
    /\ req' = Handled(AwaitSourceStep(exportFs, req), req, req2)
    /\ resp' = AwaitSourceStep(exportFs, req).resp
    /\ UNCHANGED <<exportFs, cvars, mvars, pvars, xvars>>

AwaitSingle ==
    /\ req.pc = "single"
    /\ req' = Handled(AwaitSingleStep(exportFs, req), req, req2)
    /\ resp' = AwaitSingleStep(exportFs, req).resp
    /\ UNCHANGED <<exportFs, cvars, mvars, pvars, xvars>>

\* The same steps on the second request.
Receive2(method, pathname) ==
    /\ req2.pc \in {"idle", "done"}
    /\ req2' = Handled(ReceiveStep(method, pathname), IdleRequest, req)
    /\ resp2' = ReceiveStep(method, pathname).resp
    /\ UNCHANGED <<svars, mvars, pvars, xvars>>

AwaitSource2 ==
    /\ req2.pc = "merge"
    /\ req2' = Handled(AwaitSourceStep(exportFs, req2), req2, req)
    /\ resp2' = AwaitSourceStep(exportFs, req2).resp
    /\ UNCHANGED <<svars, mvars, pvars, xvars>>

AwaitSingle2 ==
    /\ req2.pc = "single"
    /\ req2' = Handled(AwaitSingleStep(exportFs, req2), req2, req)
    /\ resp2' = AwaitSingleStep(exportFs, req2).resp
    /\ UNCHANGED <<svars, mvars, pvars, xvars>>

---------------------------------------------------------------------------
(* The documents handed to mergeICS.  A document is a header, event blocks *)
(* and a trailer, as the exporter's .ics files are laid out; the shapes    *)
(* and the event kinds vary what the parser and the regular expressions    *)
(* are sensitive to: line endings, white space, a missing UID, a repeated  *)
(* UID, an event that is never closed, a missing header or trailer.        *)

\* Most events over all the documents of one call.
MaxEvents == 3

EventKinds ==
    { [uid |-> <<"u1">>, summary |-> "SUMMARY:x", closed |-> TRUE, pad |-> <<>>],
      [uid |-> <<"u1", SP>>, summary |-> "SUMMARY:y", closed |-> TRUE, pad |-> <<>>],
      [uid |-> <<"u2">>, summary |-> "SUMMARY:x", closed |-> TRUE, pad |-> <<>>],
      [uid |-> <<>>, summary |-> "SUMMARY:x", closed |-> TRUE, pad |-> <<SP>>],
      [uid |-> <<"u2">>, summary |-> "SUMMARY:z", closed |-> FALSE, pad |-> <<>>] }

Shapes ==
    { [header |-> <<>>, trailer |-> <<>>, eol |-> <<LF>>],
      [header |-> <<"BEGIN:VCALENDAR", LF, CALNAME_FIELD, "IMMFA1TD01", LF>>,
       trailer |-> <<"END:VCALENDAR", LF>>, eol |-> <<LF>>],
      [header |-> <<"BEGIN:VCALENDAR", CR, LF, CALNAME_FIELD, "IMMFA1CM01", CR, LF,
                    "PRODID:ade", CR, LF>>,
       trailer |-> <<"END:VCALENDAR", CR, LF>>, eol |-> <<CR, LF>>],
      [header |-> <<"BEGIN:VCALENDAR", LF>>,
       trailer |-> <<"END:VCALENDAR", LF>>, eol |-> <<LF>>] }

EventText(k, eol) ==
    <<BEGIN_VEVENT>> \o eol
    \o (IF k.uid # <<>> THEN <<UID_FIELD>> \o k.uid \o eol ELSE <<>>)
    \o <<k.summary>> \o eol
    \o (IF k.closed THEN <<END_VEVENT>> \o k.pad \o eol ELSE <<>>)

RECURSIVE EventsText(_, _)
EventsText(kinds, eol) ==
    IF kinds = <<>> THEN <<>>
    ELSE EventText(Head(kinds), eol) \o EventsText(Tail(kinds), eol)

DocText(shape, kinds) == shape.header \o EventsText(kinds, shape.eol) \o shape.trailer

KindSeqs == UNION {[1..n -> EventKinds] : n \in 0..MaxEvents}

\* The lists of documents of one call: one or two documents (the merge
\* mapping's only entry has two sources), none of them empty (the handler
\* passes on only the contents that are truthy), MaxEvents events in all.
\* One document, or two with the events dealt between them.
InputList(s1, s2, ks, n, two) ==
    IF two THEN <<DocText(s1, Slice(ks, 1, n)), DocText(s2, Slice(ks, n + 1, Len(ks)))>>
    ELSE <<DocText(s1, ks)>>

InitMerge ==
    /\ \E s1 \in Shapes, s2 \in Shapes, ks \in KindSeqs, two \in BOOLEAN :
          \E n \in 0..Len(ks) :
              /\ icsFiles = InputList(s1, s2, ks, n, two)
              /\ \A i \in 1..Len(icsFiles) : icsFiles[i] # <<>>
    /\ mergedName = "GroupeIMP"
    /\ mergedICS = <<>>
    /\ mpc = "call"
    /\ exportFs = NoExportTree
    /\ req = IdleRequest
    /\ resp = NoResponse
    /\ req2 = IdleRequest
    /\ resp2 = NoResponse
    /\ icsText = <<>>
    /\ parsedEvents = <<>>
    /\ ppc = "off"
    /\ ExporterOff /\ NavigateOff /\ ExportPeriodOff /\ CopyOff

CallMergeICS ==
    /\ mpc = "call"
    /\ mergedICS' = mergeICS(icsFiles, mergedName)
    /\ mpc' = "returned"
    /\ UNCHANGED <<icsFiles, mergedName, svars, cvars, pvars, xvars>>

NextMerge == CallMergeICS

vars == <<exportFs, req, resp, req2, resp2, icsFiles, mergedName, mergedICS, mpc,
          icsText, parsedEvents, ppc, xvars>>

SpecMerge == InitMerge /\ [][NextMerge]_vars

---------------------------------------------------------------------------
(* The texts handed to parseICS: any sequence of lines, marker lines, lines *)
(* that only look like markers and ordinary lines, in any order.            *)

\* Most lines of a text.
MaxLines == 4

ParseLines ==
    { <<BEGIN_VEVENT>>,
      <<END_VEVENT>>,
      <<SP, BEGIN_VEVENT, CR>>,
      <<END_VEVENT, CR>>,
      <<END_VEVENT, SP, "x">>,
      <<UID_FIELD, "u1">>,
      <<"SUMMARY:x", CR>>,
      <<>> }

ParseTexts == UNION {{join(ls, <<LF>>) : ls \in [1..n -> ParseLines]} : n \in 0..MaxLines}

InitParse ==
    /\ icsText \in ParseTexts
    /\ parsedEvents = <<>>
    /\ ppc = "call"
    /\ exportFs = NoExportTree
    /\ req = IdleRequest
    /\ resp = NoResponse
    /\ req2 = IdleRequest
    /\ resp2 = NoResponse
    /\ icsFiles = <<>>
    /\ mergedName = ""
    /\ mergedICS = <<>>
    /\ mpc = "off"
    /\ ExporterOff /\ NavigateOff /\ ExportPeriodOff /\ CopyOff

CallParseICS ==
    /\ ppc = "call"
    /\ parsedEvents' = parseICS(icsText)
    /\ ppc' = "returned"
    /\ UNCHANGED <<icsText, svars, cvars, mvars, xvars>>

NextParse == CallParseICS

SpecParse == InitParse /\ [][NextParse]_vars

---------------------------------------------------------------------------
(* The server: any export tree, requests handled one after the other. *)

Init ==
    /\ exportFs \in ExportTrees
    /\ req = IdleRequest
    /\ resp = NoResponse
    /\ icsFiles = <<>>
    /\ mergedName = ""
    /\ mergedICS = <<>>
    /\ mpc = "off"
    /\ req2 = IdleRequest
    /\ resp2 = NoResponse
    /\ icsText = <<>>
    /\ parsedEvents = <<>>
    /\ ppc = "off"
    /\ ExporterOff /\ NavigateOff /\ ExportPeriodOff /\ CopyOff

Next ==
    \/ \E method \in Methods, pathname \in Pathnames : Receive(method, pathname)
    \/ AwaitSource
    \/ AwaitSingle

Spec == Init /\ [][Next]_vars

---------------------------------------------------------------------------
(* The server while the exporter runs: a first request, then a second one,  *)
(* and the exporter that overwrites export/<name>/<file>.ics at any time.   *)

\* exportCalendar(page, downloadPath, join(cwd, 'export', name), filename):
\* mkdirSync(exportDir, { recursive: true }) and copyFileSync onto the target.
ExporterWrites(calendarName) ==
    /\ exportFs' = [exportFs EXCEPT
                       !.root = TRUE,
                       !.direct[calendarName] =
                           [exists |-> TRUE,
                            files |-> <<IcsFile(ExportedDoc(calendarName, "rewritten"), TRUE)>>]]
    /\ exportFs' # exportFs
    /\ UNCHANGED <<req, resp, cvars, mvars, pvars, xvars>>

\* The export trees the exporter alone makes (folders export/<name>/ whose
\* file can be read), next to one dated directory left by the older layout.
LiveTrees ==
    {fs \in ExportTrees :
        /\ ~fs.archive.exists
        /\ \A c \in CalDirs : fs.direct[c].files = <<>> \/ HasReadableIcs(fs.direct[c])
        /\ \A d \in DatedDirs, c \in CalDirs :
              fs.dated[d][c].exists => d = DateDirNames[1] /\ HasReadableIcs(fs.dated[d][c])}

InitLive ==
    /\ exportFs \in LiveTrees
    /\ req = IdleRequest
    /\ resp = NoResponse
    /\ req2 = IdleRequest
    /\ resp2 = NoResponse
    /\ icsFiles = <<>>
    /\ mergedName = ""
    /\ mergedICS = <<>>
    /\ mpc = "off"
    /\ icsText = <<>>
    /\ parsedEvents = <<>>
    /\ ppc = "off"
    /\ ExporterOff /\ NavigateOff /\ ExportPeriodOff /\ CopyOff

\* The first request is handled to its end, then the second one.
NextLive ==
    \/ \E method \in Methods, pathname \in Pathnames :
          req.pc = "idle" /\ Receive(method, pathname)
    \/ AwaitSource
    \/ AwaitSingle
    \/ \E method \in Methods, pathname \in Pathnames :
          req.pc = "done" /\ req2.pc = "idle" /\ Receive2(method, pathname)
    \/ AwaitSource2
    \/ AwaitSingle2
    \/ \E calendarName \in {CALENDAR_PATHS[k] : k \in 1..Len(CALENDAR_PATHS)} :
          ExporterWrites(calendarName)

SpecLive == InitLive /\ [][NextLive]_vars

---------------------------------------------------------------------------
(* The server with two requests in flight: the steps of the two handlers    *)
(* interleave at their awaits, over a tree that does not change.            *)

\* Every kind of folder export/<name>/, and one dated directory.
ConcurrentTrees ==
    {fs \in ExportTrees :
        /\ ~fs.archive.exists
        /\ \A d \in DatedDirs, c \in CalDirs :
              fs.dated[d][c].exists => d = DateDirNames[1]}

InitConcurrent ==
    /\ exportFs \in ConcurrentTrees
    /\ req = IdleRequest
    /\ resp = NoResponse
    /\ req2 = IdleRequest
    /\ resp2 = NoResponse
    /\ icsFiles = <<>>
    /\ mergedName = ""
    /\ mergedICS = <<>>
    /\ mpc = "off"
    /\ icsText = <<>>
    /\ parsedEvents = <<>>
    /\ ppc = "off"
    /\ ExporterOff /\ NavigateOff /\ ExportPeriodOff /\ CopyOff

\* The verb is not read by the handler: the requests are GETs.
NextConcurrent ==
    \/ \E pathname \in Pathnames : Receive("GET", pathname)
    \/ AwaitSource
    \/ AwaitSingle
    \/ \E pathname \in Pathnames : Receive2("GET", pathname)
    \/ AwaitSource2
    \/ AwaitSingle2

SpecConcurrent == InitConcurrent /\ [][NextConcurrent]_vars

---------------------------------------------------------------------------
(* What the claims about parseICS and mergeICS speak of, stated on the      *)
(* documents themselves.                                                    *)

\* The value of an event's field: the rest, trimmed, of the first line that
\* starts with the field's name; empty when the event has no such line.
RECURSIVE FieldOfLines(_, _, _)
FieldOfLines(lines, i, field) ==
    IF i > Len(lines) THEN <<>>
    ELSE IF lines[i] # <<>> /\ Head(lines[i]) = field THEN trim(Tail(lines[i]))
    ELSE FieldOfLines(lines, i + 1, field)

FieldOf(text, field) == FieldOfLines(split(text), 1, field)

HasField(text, field) ==
    \E i \in 1..Len(split(text)) :
        split(text)[i] # <<>> /\ Head(split(text)[i]) = field

RECURSIVE Concat(_)
Concat(seqs) == IF seqs = <<>> THEN <<>> ELSE Head(seqs) \o Concat(Tail(seqs))

\* The events of the sources, in source order then document order.
SourceEvents == Concat([i \in 1..Len(icsFiles) |-> parseICS(icsFiles[i])])

\* The events of the returned document.
MergedEvents == parseICS(mergedICS)

RECURSIVE SelectSeq2(_, _)
SelectSeq2(seq, uidless) ==
    IF seq = <<>> THEN <<>>
    ELSE IF (FieldOf(Head(seq), UID_FIELD) = <<>>) = uidless
         THEN <<Head(seq)>> \o SelectSeq2(Tail(seq), uidless)
         ELSE SelectSeq2(Tail(seq), uidless)

UidsOf(events) == {FieldOf(events[i], UID_FIELD) : i \in 1..Len(events)} \ {<<>>}

FirstWithUid(events, uid) ==
    events[CHOOSE i \in 1..Len(events) :
              /\ FieldOf(events[i], UID_FIELD) = uid
              /\ \A j \in 1..(i - 1) : FieldOf(events[j], UID_FIELD) # uid]

EndsWith(text, suffix) ==
    /\ Len(suffix) <= Len(text)
    /\ Slice(text, Len(text) - Len(suffix) + 1, Len(text)) = suffix

\* Index of the last END:VEVENT of a document, or 0.
RECURSIVE LastIndexOf(_, _, _)
LastIndexOf(text, tok, from) ==
    IF from < 1 THEN 0
    ELSE IF text[from] = tok THEN from
    ELSE LastIndexOf(text, tok, from - 1)

\* The trailer of a document: the lines after the line of its last END:VEVENT.
Trailer(doc) ==
    LET p == LastIndexOf(doc, END_VEVENT, Len(doc))
        q == IndexOf(doc, LF, p + 1)
    IN  IF p = 0 \/ q = 0 THEN <<>> ELSE Slice(doc, q + 1, Len(doc))

\* Every BEGIN:VEVENT is closed by an END:VEVENT before the next one opens.
RECURSIVE BalancedFrom(_, _, _)
BalancedFrom(doc, i, open) ==
    IF i > Len(doc) THEN ~open
    ELSE IF doc[i] = BEGIN_VEVENT THEN ~open /\ BalancedFrom(doc, i + 1, TRUE)
    ELSE IF doc[i] = END_VEVENT THEN open /\ BalancedFrom(doc, i + 1, FALSE)
    ELSE BalancedFrom(doc, i + 1, open)

Balanced(doc) == BalancedFrom(doc, 1, FALSE)

\* header + events + footer of one document, put together as mergeICS does,
\* the calendar name left alone.
Reassembled(doc) ==
    LET ex == extractStep([allEvents |-> <<>>, header |-> <<>>, footer |-> <<>>], doc)
    IN  ex.header \o join(parseICS(doc), <<LF>>) \o <<LF>> \o ex.footer

---------------------------------------------------------------------------
(* C1: the merged document holds exactly one event per UID of the sources' *)
(* events, and it is the first copy in source order, so the copy of the     *)
(* earliest source that has the UID.                                        *)
C1_OneEventPerUidFirstSourceWins ==
    mpc = "returned" =>
        LET out == MergedEvents
            src == SourceEvents
            outUid == [j \in 1..Len(out) |-> FieldOf(out[j], UID_FIELD)]
            srcUid == [i \in 1..Len(src) |-> FieldOf(src[i], UID_FIELD)]
        IN  /\ UidsOf(out) = UidsOf(src)
            /\ \A i \in 1..Len(src) :
                  (srcUid[i] # <<>> /\ \A k \in 1..(i - 1) : srcUid[k] # srcUid[i]) =>
                      /\ Cardinality({j \in 1..Len(out) : outUid[j] = srcUid[i]}) = 1
                      /\ \E j \in 1..Len(out) : out[j] = src[i]

\* Two sources hold different copies of one UID and the first one's is returned.
C1_Witness ==
    /\ mpc = "returned"
    /\ Len(icsFiles) = 2
    /\ \E u \in UidsOf(parseICS(icsFiles[1])) \cap UidsOf(parseICS(icsFiles[2])) :
          /\ FirstWithUid(parseICS(icsFiles[1]), u) # FirstWithUid(parseICS(icsFiles[2]), u)
          /\ FirstWithUid(MergedEvents, u) = FirstWithUid(parseICS(icsFiles[1]), u)

(* C2: the merged document ends with the first source's trailer (the lines  *)
(* after its last END:VEVENT, such as END:VCALENDAR) whenever that trailer   *)
(* is not empty.                                                            *)
C2_EndsWithFirstTrailer ==
    (mpc = "returned" /\ Trailer(icsFiles[1]) # <<>>) =>
        EndsWith(mergedICS, Trailer(icsFiles[1]))

(* C3: round trip: a document with balanced markers is equal to its header, *)
(* events and footer put together again.                                    *)
C3_RoundTrip ==
    \A i \in 1..Len(icsFiles) :
        (mpc = "returned" /\ Balanced(icsFiles[i])) => Reassembled(icsFiles[i]) = icsFiles[i]

(* C4: the X-WR-CALNAME field of the merged document is the virtual name,   *)
(* whatever the sources carry.                                              *)
C4_CalNameIsMergedName ==
    mpc = "returned" =>
        /\ HasField(mergedICS, CALNAME_FIELD)
        /\ FieldOf(mergedICS, CALNAME_FIELD) = <<mergedName>>

(* C5: events without a UID are all kept, in order, even when identical,    *)
(* and they neither remove nor are removed by an event that has a UID.      *)
C5_UidlessNeverDeduplicated ==
    mpc = "returned" =>
        /\ SelectSeq2(MergedEvents, TRUE) = SelectSeq2(SourceEvents, TRUE)
        /\ UidsOf(MergedEvents) = UidsOf(SourceEvents)

\* Two sources each hold the same UID-less event, beside an event with a UID,
\* and the merged document holds both UID-less events.
C5_Witness ==
    /\ mpc = "returned"
    /\ Len(icsFiles) = 2
    /\ SelectSeq2(parseICS(icsFiles[1]), TRUE) # <<>>
    /\ SelectSeq2(parseICS(icsFiles[2]), TRUE) # <<>>
    /\ SelectSeq2(parseICS(icsFiles[1]), TRUE)[1] = SelectSeq2(parseICS(icsFiles[2]), TRUE)[1]
    /\ UidsOf(SourceEvents) # {}
    /\ Len(SelectSeq2(MergedEvents, TRUE)) >= 2

\* The events in the order of their first encounter: an event is left out
\* when an earlier one has its UID.
RECURSIVE FirstEncounters(_, _, _)
FirstEncounters(src, i, seen) ==
    IF i > Len(src) THEN <<>>
    ELSE LET uid == FieldOf(src[i], UID_FIELD)
         IN  IF uid # <<>> /\ uid \in seen
             THEN FirstEncounters(src, i + 1, seen)
             ELSE <<src[i]>> \o FirstEncounters(src, i + 1, seen \cup {uid})

(* C18: the events of the merged document are the sources' events in the   *)
(* order of their first encounter (source order, then document order):       *)
(* leaving a duplicate out moves no other event.                             *)
C18_FirstEncounterOrder ==
    mpc = "returned" => MergedEvents = FirstEncounters(SourceEvents, 1, {})

\* The second source repeats the UID of the first event, other events stand
\* after it, and a duplicate was left out.
C18_Witness ==
    /\ mpc = "returned"
    /\ Len(icsFiles) = 2
    /\ Len(MergedEvents) >= 2
    /\ Len(MergedEvents) < Len(SourceEvents)
    /\ FieldOf(MergedEvents[1], UID_FIELD) \in UidsOf(parseICS(icsFiles[2]))
    /\ FieldOf(MergedEvents[2], UID_FIELD) # FieldOf(MergedEvents[1], UID_FIELD)

\* The header of a document: the text before its first BEGIN:VEVENT, none
\* when it has no event.
HeaderOf(doc) ==
    LET p == IndexOf(doc, BEGIN_VEVENT, 1)
    IN  IF p = 0 THEN <<>> ELSE Slice(doc, 1, p - 1)

\* The header of the first document that has one.
RECURSIVE FirstHeader(_, _)
FirstHeader(docs, i) ==
    IF i > Len(docs) THEN <<>>
    ELSE IF HeaderOf(docs[i]) # <<>> THEN HeaderOf(docs[i])
    ELSE FirstHeader(docs, i + 1)

\* The lines with the value of the first X-WR-CALNAME line replaced by name
\* (the line's carriage return kept), the other lines as they are.
RECURSIVE RenamedLines(_, _, _)
RenamedLines(lines, i, name) ==
    IF i > Len(lines) THEN <<>>
    ELSE IF lines[i] # <<>> /\ Head(lines[i]) = CALNAME_FIELD
         THEN <<(<<CALNAME_FIELD, name>>
                 \o (IF lines[i][Len(lines[i])] = CR THEN <<CR>> ELSE <<>>))>>
              \o Slice(lines, i + 1, Len(lines))
         ELSE <<lines[i]>> \o RenamedLines(lines, i + 1, name)

Renamed(header, name) == join(RenamedLines(split(header), 1, name), <<LF>>)

\* The words of a text: its tokens but the white space and line breaks.
Words(text) == {text[i] : i \in 1..Len(text)} \ {LF, CR, SP}

StartsWith(text, prefix) ==
    /\ Len(prefix) <= Len(text)
    /\ Slice(text, 1, Len(prefix)) = prefix

(* C19: the merged document starts with the header of the first source that *)
(* has one, its X-WR-CALNAME value replaced by the merged name and its other *)
(* lines unchanged, and no header line of any source stands after it.        *)
C19_HeaderOfFirstSource ==
    mpc = "returned" =>
        LET header == Renamed(FirstHeader(icsFiles, 1), mergedName)
            rest == Slice(mergedICS, Len(header) + 1, Len(mergedICS))
        IN  /\ StartsWith(mergedICS, header)
            /\ \A i \in 1..Len(icsFiles) :
                  Words(HeaderOf(icsFiles[i])) \cap Words(rest) = {}

\* Two sources with different headers, the first one naming its calendar
\* and carrying other lines: the document starts with the first's, renamed.
C19_Witness ==
    /\ mpc = "returned"
    /\ Len(icsFiles) = 2
    /\ HeaderOf(icsFiles[1]) # <<>>
    /\ HeaderOf(icsFiles[2]) # <<>>
    /\ HeaderOf(icsFiles[1]) # HeaderOf(icsFiles[2])
    /\ HasField(HeaderOf(icsFiles[1]), CALNAME_FIELD)
    /\ Renamed(HeaderOf(icsFiles[1]), mergedName) # HeaderOf(icsFiles[1])
    /\ "PRODID:ade" \in Words(HeaderOf(icsFiles[1]))
    /\ StartsWith(mergedICS, Renamed(HeaderOf(icsFiles[1]), mergedName))
    /\ parseICS(mergedICS) # <<>>

\* A marker line: the marker alone, but for white space around it.
IsMarkerLine(line, marker) ==
    /\ \E i \in 1..Len(line) : line[i] = marker
    /\ \A i \in 1..Len(line) : line[i] = marker \/ IsWhiteSpace(line[i])
    /\ Cardinality({i \in 1..Len(line) : line[i] = marker}) = 1

\* The text of the lines a..b of a text, line breaks included.
LinesText(text, a, b) == join(Slice(split(text), a, b), <<LF>>)

\* block is the text from a BEGIN:VEVENT line to the END:VEVENT line that
\* closes it (the first marker line after it).
IsEventBlock(block, text) ==
    LET lines == split(text)
    IN  \E a \in 1..Len(lines), b \in 1..Len(lines) :
            /\ a < b
            /\ IsMarkerLine(lines[a], BEGIN_VEVENT)
            /\ IsMarkerLine(lines[b], END_VEVENT)
            /\ \A k \in (a + 1)..(b - 1) :
                  /\ ~IsMarkerLine(lines[k], BEGIN_VEVENT)
                  /\ ~IsMarkerLine(lines[k], END_VEVENT)
            /\ block = LinesText(text, a, b)

(* C20: each block parseICS returns is the text from a BEGIN:VEVENT line    *)
(* through the END:VEVENT line that closes it, markers and line breaks       *)
(* included, and parseICS returns nothing else.                              *)
C20_BlocksAreEvents ==
    ppc = "returned" =>
        \A j \in 1..Len(parsedEvents) : IsEventBlock(parsedEvents[j], icsText)

\* The line after a where the event that starts at line a ends: the first
\* marker line after a, or one past the last line.
RECURSIVE NextMarker(_, _)
NextMarker(lines, k) ==
    IF k > Len(lines) THEN k
    ELSE IF IsMarkerLine(lines[k], BEGIN_VEVENT) \/ IsMarkerLine(lines[k], END_VEVENT)
    THEN k
    ELSE NextMarker(lines, k + 1)

\* The events of a text that are closed: the BEGIN:VEVENT lines whose next
\* marker line is an END:VEVENT; and those that are never closed.
ClosedStarts(lines) ==
    {a \in 1..Len(lines) :
        /\ IsMarkerLine(lines[a], BEGIN_VEVENT)
        /\ NextMarker(lines, a + 1) <= Len(lines)
        /\ IsMarkerLine(lines[NextMarker(lines, a + 1)], END_VEVENT)}

UnclosedStarts(lines) ==
    {a \in 1..Len(lines) : IsMarkerLine(lines[a], BEGIN_VEVENT)} \ ClosedStarts(lines)

\* The texts of the closed events, in the order of the text.
RECURSIVE ClosedBlocks(_, _)
ClosedBlocks(text, starts) ==
    IF starts = {} THEN <<>>
    ELSE LET a == CHOOSE x \in starts : \A y \in starts : x <= y
         IN  <<LinesText(text, a, NextMarker(split(text), a + 1))>>
             \o ClosedBlocks(text, starts \ {a})

\* The returned blocks that start with a BEGIN:VEVENT line, and the others.
RECURSIVE BlocksFromBegin(_, _)
BlocksFromBegin(blocks, fromBegin) ==
    IF blocks = <<>> THEN <<>>
    ELSE (IF IsMarkerLine(split(Head(blocks))[1], BEGIN_VEVENT) = fromBegin
          THEN <<Head(blocks)>> ELSE <<>>)
         \o BlocksFromBegin(Tail(blocks), fromBegin)

(* C21: an event that is never closed is dropped: the blocks parseICS       *)
(* returns for BEGIN:VEVENT lines are the texts of the closed events, each   *)
(* whole and in order, and no line of an unclosed event is in any block      *)
(* (any other block is a single END:VEVENT line).                            *)
C21_UnclosedEventDropped ==
    ppc = "returned" =>
        /\ BlocksFromBegin(parsedEvents, TRUE)
              = ClosedBlocks(icsText, ClosedStarts(split(icsText)))
        /\ \A j \in 1..Len(BlocksFromBegin(parsedEvents, FALSE)) :
              LET block == BlocksFromBegin(parsedEvents, FALSE)[j]
              IN  Len(split(block)) = 1 /\ IsMarkerLine(block, END_VEVENT)

\* An event with a line of its own is never closed, a closed event follows
\* it, and the closed event alone is returned.
C21_Witness ==
    /\ ppc = "returned"
    /\ LET lines == split(icsText)
       IN  \E a \in UnclosedStarts(lines) :
               /\ NextMarker(lines, a + 1) > a + 1
               /\ \E b \in ClosedStarts(lines) : b > a
    /\ Len(parsedEvents) = 1
    /\ parsedEvents = ClosedBlocks(icsText, ClosedStarts(split(icsText)))

---------------------------------------------------------------------------
(* What the claims about the locator and the handler speak of, stated on   *)
(* the export tree.                                                         *)

IcsFilesOf(dir) == {dir.files[i] : i \in {j \in 1..Len(dir.files) : EndsWithIcs(dir.files[j].name)}}

HasIcs(dir) == dir.exists /\ IcsFilesOf(dir) # {}

ContentsOf(dir) == {dir.files[i].content : i \in 1..Len(dir.files)}

\* No .ics file for the name anywhere under export/.
NoExportFile(fs, name) ==
    /\ ~HasIcs(DirectDir(fs, name))
    /\ \A d \in DatedDirs \cup {ArchiveDir} : ~HasIcs(SubDir(fs, d, name))

\* The hyphen-named directories D with a .ics file in export/D/<name>/.
DatedWithIcs(fs, name) == {d \in DatedDirs : fs.root /\ HasIcs(SubDir(fs, d, name))}

Greatest(dirs) == CHOOSE d \in dirs : \A e \in dirs : Rank(e) <= Rank(d)

\* A finished request of /calendar/<name>.
CalendarRequestDone ==
    req.pc = "done" /\ StartsWithCalendar(req.pathname) /\ req.calendarName # ""

\* The sources of the requested merge that resolve (to a document that is not
\* empty: the handler takes an empty file for a missing one), in mapping order.
RECURSIVE ResolvedFrom(_, _, _)
ResolvedFrom(fs, sources, i) ==
    IF i > Len(sources) THEN <<>>
    ELSE LET c == getLatestICS(fs, sources[i])
         IN  (IF Truthy(c) THEN <<c.text>> ELSE <<>>) \o ResolvedFrom(fs, sources, i + 1)

(* C6: a name that is no key of CALENDAR_MERGES and has no export file gets *)
(* a 404 answer, and the handler does not throw (no 500).                   *)
C6_UnknownNameIs404 ==
    (/\ CalendarRequestDone
     /\ req.calendarName \notin DOMAIN CALENDAR_MERGES
     /\ NoExportFile(exportFs, req.calendarName))
        => resp.status = 404

(* C7: when export/<name>/ holds a .ics file, getLatestICS returns the      *)
(* content of a file of that folder, never that of a file under a dated      *)
(* directory.                                                               *)
C7_DirectFolderWins ==
    \A k \in 1..Len(req.lookups) :
        LET name == req.lookups[k].name
            content == req.lookups[k].content
        IN  HasIcs(DirectDir(exportFs, name)) =>
                /\ ~content.isNull
                /\ content.text \in ContentsOf(DirectDir(exportFs, name))
                /\ \A d \in DatedDirs : content.text \notin ContentsOf(SubDir(exportFs, d, name))

(* C8: when export/<name>/ holds no .ics file, getLatestICS returns the     *)
(* file of the greatest hyphen-named directory D whose D/<name>/ holds a     *)
(* .ics file, and null only when there is no such D.                         *)
C8_NewestDatedDirectory ==
    \A k \in 1..Len(req.lookups) :
        LET name == req.lookups[k].name
            content == req.lookups[k].content
            Ds == DatedWithIcs(exportFs, name)
        IN  ~HasIcs(DirectDir(exportFs, name)) =>
                IF Ds = {} THEN content.isNull
                ELSE /\ ~content.isNull
                     /\ content.text \in ContentsOf(SubDir(exportFs, Greatest(Ds), name))

(* C9: a merge whose sources all give null is answered 404 with a body that *)
(* names the merged calendar, and mergeICS is not run.                       *)
C9_NoSourceIs404 ==
    (/\ CalendarRequestDone
     /\ req.calendarName \in DOMAIN CALENDAR_MERGES
     /\ \A k \in 1..Len(req.lookups) : req.lookups[k].content.isNull)
        => /\ resp.status = 404
           /\ \E i \in 1..Len(resp.body) : resp.body[i] = req.calendarName
           /\ ~req.mergeRan

\* Both sources were looked up, gave null, and the answer is the 404.
C9_Witness ==
    /\ CalendarRequestDone
    /\ req.calendarName = "GroupeIMP"
    /\ Len(req.lookups) = Len(CALENDAR_MERGES["GroupeIMP"])
    /\ \A k \in 1..Len(req.lookups) : req.lookups[k].content.isNull
    /\ resp.status = 404

---------------------------------------------------------------------------
(* What the claims about the responses speak of. *)

\* The directives of a Cache-Control header.
Directives(cacheControl) == {cacheControl[i] : i \in 1..Len(cacheControl)}

\* The media type of a Content-Type header ("" when the header is not set).
MediaType(contentType) == IF contentType = <<>> THEN "" ELSE Head(contentType)

\* The response carries a calendar document: a 200 on the calendar route.
CarriesCalendar == CalendarRequestDone /\ resp.status = 200

(* C11: every response that carries a calendar document, single or merged,  *)
(* has the Content-Type text/calendar, a Cache-Control with no-cache and     *)
(* no-store, and Access-Control-Allow-Origin "*".                            *)
C11_CalendarHeaders ==
    CarriesCalendar =>
        /\ MediaType(resp.contentType) = "text/calendar"
        /\ {"no-cache", "no-store"} \subseteq Directives(resp.cacheControl)
        /\ resp.allowOrigin = "*"

\* A single calendar was served from its file.
C11_Witness ==
    /\ CarriesCalendar
    /\ req.calendarName = "IMMFA1TD01"
    /\ ~req.mergeRan
    /\ resp.body = req.lookups[1].content.text
    /\ resp.body # <<>>

\* The handler run from the request to the response with no other request
\* in flight: its steps applied one after the other to one tree.
RECURSIVE RunToDone(_, _)
RunToDone(fs, s) ==
    IF s.req.pc = "merge" THEN RunToDone(fs, AwaitSourceStep(fs, s.req))
    ELSE IF s.req.pc = "single" THEN RunToDone(fs, AwaitSingleStep(fs, s.req))
    ELSE s

HandledAlone(fs, method, pathname) == RunToDone(fs, ReceiveStep(method, pathname))

\* The path is neither "/" nor under "/calendar/".
OtherPath(pathname) == pathname # <<"/">> /\ ~StartsWithCalendar(pathname)

(* C12 as claimed: a finished request with a verb other than GET, or with a *)
(* path that is neither / nor under /calendar/, got a 404.                   *)
C12_OnlyGetRoutes ==
    (req.pc = "done" /\ (req.method # "GET" \/ OtherPath(req.pathname)))
        => resp.status = 404

(* C12 as amended: the path alone decides: a request whose path is neither  *)
(* / nor under /calendar/ gets a 404 whatever its verb, and a request with   *)
(* another verb gets the answer the GET of the same path gets.               *)
C12_PathAloneRoutes ==
    req.pc = "done" =>
        /\ OtherPath(req.pathname) => resp.status = 404
        /\ resp = HandledAlone(exportFs, "GET", req.pathname).resp

\* A POST of a calendar was answered with the document.
C12_Witness ==
    /\ req.pc = "done"
    /\ req.method = "POST"
    /\ req.pathname = <<"/calendar/", "IMMFA1TD01">>
    /\ resp.status = 200
    /\ resp.body # <<>>

\* The name is a key of the merge mapping and has an export of its own, which
\* a request of it as a single calendar would be served.
MergeNameWithExport ==
    /\ CalendarRequestDone
    /\ req.calendarName \in DOMAIN CALENDAR_MERGES
    /\ Truthy(getLatestICS(exportFs, req.calendarName))

(* C13 as claimed: a name that is a key of the merge mapping and has an     *)
(* export file of its own is answered with that raw export.                  *)
C13_RealExportFirst ==
    MergeNameWithExport =>
        /\ resp.status = 200
        /\ resp.body = getLatestICS(exportFs, req.calendarName).text

(* C13 as amended: the merge mapping is looked at first: the answer is the  *)
(* merged document of the mapping's sources (the 404 of the merge when none  *)
(* resolves) and the export of the name itself is never read.                *)
C13_MergeMappingFirst ==
    MergeNameWithExport =>
        LET sources == CALENDAR_MERGES[req.calendarName]
        IN  /\ resp = MergedResponse(ResolvedFrom(exportFs, sources, 1),
                                     req.calendarName).resp
            /\ Len(req.lookups) = Len(sources)
            /\ \A k \in 1..Len(req.lookups) :
                  /\ req.lookups[k].name = sources[k]
                  /\ req.lookups[k].name # req.calendarName

\* The name has an export of its own and the answer is the merge of the
\* sources, which is another document.
C13_Witness ==
    /\ MergeNameWithExport
    /\ resp.status = 200
    /\ req.mergeRan
    /\ resp.body # getLatestICS(exportFs, req.calendarName).text

(* C14: a request of /calendar/ with nothing after it gets the 400 and no   *)
(* lookup in the export tree is made for it.                                 *)
C14_MissingNameIs400 ==
    (req.pc = "done" /\ req.pathname = <<"/calendar/">>)
        => /\ resp.status = 400
           /\ req.lookups = <<>>

C14_Witness ==
    /\ req.pc = "done"
    /\ req.pathname = <<"/calendar/">>
    /\ resp.status = 400

\* Some folder the lookups of the request go through holds a .ics file that
\* cannot be read, or export/ cannot be listed.
FilesystemError(fs, name) ==
    \/ ~fs.root
    \/ \E d \in DatedDirs :
          \E f \in IcsFilesOf(SubDir(fs, d, name)) : ~f.readable
    \/ \E f \in IcsFilesOf(DirectDir(fs, name)) : ~f.readable

(* C15: getLatestICS never rejects: whatever the tree (export/ missing, a   *)
(* folder missing, a file unreadable) each lookup gives a text or null, no   *)
(* calendar request that looked a file up is answered 500, and one whose     *)
(* lookups all gave null is answered 404.                                    *)
C15_LocatorNeverRejects ==
    /\ \A k \in 1..Len(req.lookups) : ~req.lookups[k].content.rejected
    /\ (CalendarRequestDone /\ req.lookups # <<>>) =>
          /\ resp.status \in {200, 404}
          /\ (\A k \in 1..Len(req.lookups) : req.lookups[k].content.isNull)
                => resp.status = 404

\* The calendar's file could not be read and the answer is 404.
C15_Witness ==
    /\ CalendarRequestDone
    /\ req.calendarName = "IMMFA1TD01"
    /\ exportFs.root
    /\ FilesystemError(exportFs, "IMMFA1TD01")
    /\ req.lookups # <<>>
    /\ req.lookups[1].content.isNull
    /\ resp.status = 404

---------------------------------------------------------------------------
(* What the claims about the server's state speak of. *)

\* The content of the file export/<name>/ holds now, when it can be read.
DirectContent(fs, name) ==
    LET dir == DirectDir(fs, name) IN dir.files[FindIcs(dir.files, 1)].content

\* A step of the handler on a request (r before, rn and respn after): the
\* tree is left as it is; the lookup it makes gives the file export/<name>/
\* holds now; the answer of a single calendar is the one the tree as it is
\* now gives, whatever was answered before.
HandlerStepIsFresh(r, rn, respn) ==
    /\ exportFs' = exportFs
    /\ Len(rn.lookups) = Len(r.lookups) + 1 =>
          LET l == rn.lookups[Len(rn.lookups)]
          IN  HasReadableIcs(DirectDir(exportFs, l.name)) =>
                  l.content = Text(DirectContent(exportFs, l.name))
    /\ (r.pc = "single" /\ rn.pc = "done") =>
          respn = HandledAlone(exportFs, r.method, r.pathname).resp

(* C16: no step of the handler changes the export tree, and the handler     *)
(* keeps nothing between requests: each lookup reads the file that is there  *)
(* now, so a request made after the exporter replaced a file is answered     *)
(* with the new content.                                                     *)
C16_ReadOnlyAndFresh ==
    [][ /\ req' # req => HandlerStepIsFresh(req, req', resp')
        /\ req2' # req2 => HandlerStepIsFresh(req2, req2', resp2') ]_vars

\* Two requests of the same calendar, the exporter having replaced the file
\* in between: the first got the old document, the second the new one.
C16_Witness ==
    /\ req.pc = "done" /\ req2.pc = "done"
    /\ req.pathname = <<"/calendar/", "IMMFA1TD01">>
    /\ req2.pathname = req.pathname
    /\ resp.status = 200 /\ resp2.status = 200
    /\ resp.body = ExportedDoc("IMMFA1TD01", "direct")
    /\ resp2.body = ExportedDoc("IMMFA1TD01", "rewritten")
    /\ DirectContent(exportFs, "IMMFA1TD01") = resp2.body

(* C17: whatever the interleaving of the steps of two requests over a tree  *)
(* that does not change, each finished request has the response, and made    *)
(* the lookups, it has when handled alone.                                   *)
C17_ResponseAsAlone ==
    /\ req.pc = "done" =>
          LET alone == HandledAlone(exportFs, req.method, req.pathname)
          IN  resp = alone.resp /\ req.lookups = alone.req.lookups
    /\ req2.pc = "done" =>
          LET alone == HandledAlone(exportFs, req2.method, req2.pathname)
          IN  resp2 = alone.resp /\ req2.lookups = alone.req.lookups

\* A merge and a single calendar were served, each handler having taken
\* steps while the other was suspended at an await.
C17_Witness ==
    /\ req.pc = "done" /\ req2.pc = "done"
    /\ req.overlapped /\ req2.overlapped
    /\ req.pathname = <<"/calendar/", "GroupeIMP">>
    /\ req2.pathname = <<"/calendar/", "IMMFA1CM01">>
    /\ resp.status = 200 /\ resp2.status = 200
    /\ resp.body # resp2.body

---------------------------------------------------------------------------
(* The exporter: main of index.ts walks CALENDAR_PATHS with               *)
(* ensureLoggedIn, processCalendar (navigateTreePath, extractDateInfo,     *)
(* exportCalendar) and cleanSessionAndRelogin.  Every call of puppeteer    *)
(* or of fs either returns or throws, and what the page shows is the       *)
(* remote site's choice: the answers are inputs of the steps.  The         *)
(* exportCalendar modelled is the one that sets the export period.         *)

\* src/config.ts, CALENDAR_PATHS: the calendars, in configuration order.
ExporterCalendars ==
    << [name |-> "IMMFA1TD01",
        path |-> <<"Trainees", "UFR Informatique", "M1 MIAGE", "IMMFA1TD", "IMMFA1TD01">>],
       [name |-> "IMMFA1CM01",
        path |-> <<"Trainees", "UFR Informatique", "M1 MIAGE", "IMMFA1CM", "IMMFA1CM01">>],
       [name |-> "IMMFA1AN01",
        path |-> <<"Trainees", "UFR Informatique", "M1 MIAGE", "IMMFA1AN", "IMMFA1AN01">>] >>

\* One call recorded in log: what was called, for which calendar, on what.
Ev(ev, cal, arg) == [ev |-> ev, cal |-> cal, arg |-> arg]

\* The result of an async function: it returned, or it threw an Error with
\* this message; events are the calls it made before that.
Returned(events) == [threw |-> FALSE, message |-> <<>>, events |-> events]

Threw(message, events) == [threw |-> TRUE, message |-> message, events |-> events]

\* error.message of an error thrown by a call of puppeteer or of fs.
PageError == "page error"

\* What the page answers to one call of ensureLoggedIn: the first call that
\* throws, if any, and what the two looks for span.x-tree3-node-text see.
EnsureCalls ==
    {"none", "evaluate isLoggedIn", "goto myplanning", "evaluate hasTree",
     "login form", "selectDatabase", "waitForSelector tree"}

EnsureAnswers == [failAt : EnsureCalls, isLoggedIn : BOOLEAN, hasTree : BOOLEAN]

\* The try block of ensureLoggedIn with the final waitForSelector left out.
ReauthenticateNoWait(a, cal) ==
    IF a.failAt \in {"goto myplanning", "evaluate hasTree"} THEN Threw(<<PageError>>, <<>>)
    ELSE IF a.hasTree THEN Returned(<<Ev("tree observed", cal, "hasTree")>>)
    ELSE IF a.failAt = "login form" THEN Threw(<<PageError>>, <<>>)
    ELSE IF a.failAt = "selectDatabase"
         THEN Threw(<<"Could not find option">>, <<Ev("login", cal, "ensureLoggedIn")>>)
    ELSE Returned(<<Ev("login", cal, "ensureLoggedIn"),
                    Ev("selectDatabase", cal, "ensureLoggedIn")>>)

\* The try block of ensureLoggedIn: goto myplanning.jsp and look for the
\* tree; without it fill the login form, selectDatabase, and wait for the
\* tree to be visible.
Reauthenticate(a, cal) ==
    IF a.failAt \in {"goto myplanning", "evaluate hasTree"} THEN Threw(<<PageError>>, <<>>)
    ELSE IF a.hasTree THEN Returned(<<Ev("tree observed", cal, "hasTree")>>)
    ELSE IF a.failAt = "login form" THEN Threw(<<PageError>>, <<>>)
    ELSE IF a.failAt = "selectDatabase"
         THEN Threw(<<"Could not find option">>, <<Ev("login", cal, "ensureLoggedIn")>>)
    ELSE IF a.failAt = "waitForSelector tree"
         THEN Threw(<<PageError>>, <<Ev("login", cal, "ensureLoggedIn"),
                                     Ev("selectDatabase", cal, "ensureLoggedIn")>>)
    ELSE Returned(<<Ev("login", cal, "ensureLoggedIn"),
                    Ev("selectDatabase", cal, "ensureLoggedIn"),
                    Ev("tree observed", cal, "waitForSelector")>>)

\* 'Failed to re-authenticate: ' + error.message
FailedToReauthenticate(message) == <<"Failed to re-authenticate: ">> \o message

\* ensureLoggedIn(page): the first evaluate stands before the try block.
ensureLoggedIn(a, cal) ==
    IF a.failAt = "evaluate isLoggedIn" THEN Threw(<<PageError>>, <<>>)
    ELSE IF a.isLoggedIn THEN Returned(<<Ev("tree observed", cal, "isLoggedIn")>>)
    ELSE LET r == Reauthenticate(a, cal)
         IN  IF r.threw THEN Threw(FailedToReauthenticate(r.message), r.events) ELSE r

\* formatFilename(dateInfo, calendarName)
formatFilename(calendarName) == calendarName

\* path.join(exportDir, `${filename}.ics`), exportDir = export/<name>
TargetPath(calendarName) == <<"export", calendarName, formatFilename(calendarName), ".ics">>

\* What the page and the disk answer to one call of processCalendar.
ProcessCalls ==
    {"none", "navigateTreePath", "extractDateInfo", "click export", "select date",
     "evaluate OK", "copyFileSync", "unlinkSync"}

ProcessAnswers ==
    [failAt : ProcessCalls, calendarTriggerClicked : BOOLEAN, calendarVisible : BOOLEAN,
     okClicked : BOOLEAN, downloaded : BOOLEAN]

\* exportCalendar(page, downloadPath, exportDir, filename)
exportCalendar(a, calendarName, cal) ==
    IF a.failAt = "click export" THEN Threw(<<PageError>>, <<>>)
    ELSE IF a.calendarTriggerClicked /\ ~a.calendarVisible THEN Returned(<<>>)
    ELSE IF a.calendarTriggerClicked /\ a.failAt = "select date" THEN Threw(<<PageError>>, <<>>)
    ELSE IF a.failAt = "evaluate OK" THEN Threw(<<PageError>>, <<>>)
    ELSE IF ~a.okClicked THEN Threw(<<"Could not find or click OK button">>, <<>>)
    ELSE IF ~a.downloaded THEN Threw(<<"No ICS file found in download directory">>, <<>>)
    ELSE IF a.failAt = "copyFileSync" THEN Threw(<<PageError>>, <<>>)
    ELSE IF a.failAt = "unlinkSync"
         THEN Threw(<<PageError>>, <<Ev("copyFileSync", cal, TargetPath(calendarName))>>)
    ELSE Returned(<<Ev("copyFileSync", cal, TargetPath(calendarName))>>)

\* processCalendar(page, calendarPath, downloadPath): its catch rethrows.
processCalendar(a, calendarPath, cal) ==
    LET nav == <<Ev("navigateTreePath", cal, calendarPath.path)>>
    IN  IF a.failAt = "navigateTreePath" THEN Threw(<<"Could not find tree node">>, nav)
        ELSE IF a.failAt = "extractDateInfo" THEN Threw(<<PageError>>, nav)
        ELSE LET r == exportCalendar(a, calendarPath.name, cal)
             IN  [r EXCEPT !.events = nav \o @]

\* The calls of cleanSessionAndRelogin, in order.
CleanCalls ==
    <<"createCDPSession", "Network.clearBrowserCookies", "Network.clearBrowserCache",
      "goto index", "login", "selectDatabase">>

RECURSIVE CleanEvents(_, _, _)
CleanEvents(cal, k, last) ==
    IF k > last THEN <<>>
    ELSE <<Ev(CleanCalls[k], cal, "cleanSessionAndRelogin")>> \o CleanEvents(cal, k + 1, last)

\* cleanSessionAndRelogin without the two Network.clear calls.
cleanSessionAndReloginKeepCookies(failAt, cal) ==
    LET start == <<Ev("cleanSessionAndRelogin", cal, "start")>>
        done  == IF failAt = 0 THEN Len(CleanCalls) ELSE failAt - 1
        made  == SelectSeq(CleanEvents(cal, 1, done),
                           LAMBDA e : e.ev \notin {"Network.clearBrowserCookies",
                                                   "Network.clearBrowserCache"})
    IN  IF failAt = 0
        THEN Returned(start \o made \o <<Ev("cleanSessionAndRelogin", cal, "returned")>>)
        ELSE Threw(<<PageError>>, start \o made \o <<Ev("cleanSessionAndRelogin", cal, "threw")>>)

\* cleanSessionAndRelogin(page): failAt is the call that throws (0: none);
\* its catch rethrows.
cleanSessionAndRelogin(failAt, cal) ==
    LET start == <<Ev("cleanSessionAndRelogin", cal, "start")>>
        done  == IF failAt = 0 THEN Len(CleanCalls) ELSE failAt - 1
        made  == CleanEvents(cal, 1, done)
    IN  IF failAt = 0
        THEN Returned(start \o made \o <<Ev("cleanSessionAndRelogin", cal, "returned")>>)
        ELSE Threw(<<PageError>>, start \o made \o <<Ev("cleanSessionAndRelogin", cal, "threw")>>)

RECURSIVE LastIndex(_, _, _)
LastIndex(events, ev, k) ==
    IF k = 0 THEN 0
    ELSE IF events[k].ev = ev THEN k
    ELSE LastIndex(events, ev, k - 1)

\* The calls made from the last copyFileSync on.
SinceLastExport(events) ==
    LET k == LastIndex(events, "copyFileSync", Len(events))
    IN  IF k = 0 THEN <<>> ELSE Slice(events, k, Len(events))

\* The inner catch with the recovery goto outside a try block: a failed
\* recovery leaves the loop.
AfterRecoveryUncaught(gotoOk) == IF gotoOk THEN "loop" ELSE "finally"

\* The inner try/catch around the recovery goto: whatever the goto does the
\* loop goes on.
AfterRecovery(gotoOk) == "loop"

\* A finally block that closes the browser only when nothing was thrown.
CloseBrowserOnSuccess(b, err) == IF err = <<>> THEN "closed" ELSE b

\* finally { await browser.close() }
CloseBrowser(b, err) == "closed"

\* const browser = await puppeteer.launch(...), before the try block.
Launch ==
    /\ mainPc = "start"
    /\ \E launched \in BOOLEAN :
          IF launched
          THEN browser' = "open" /\ mainPc' = "setup" /\ error' = <<>>
          ELSE browser' = "none" /\ mainPc' = "rejected" /\ error' = <<PageError>>
    /\ UNCHANGED <<calIdx, results, attempted, log>>
    /\ UNCHANGED <<svars, cvars, mvars, pvars, nvars, dvars, copying>>

\* newPage, the download directory, the initial login and selectDatabase,
\* const results; an error goes to the outer catch, which rethrows it.
Setup ==
    /\ mainPc = "setup"
    /\ \E failAt \in {"none", "newPage", "login", "selectDatabase"} :
          IF failAt = "none"
          THEN /\ mainPc' = "loop"
               /\ calIdx' = 1
               /\ results' = NoResults
               /\ log' = <<Ev("login", 0, "main"), Ev("selectDatabase", 0, "main")>>
               /\ error' = <<>>
          ELSE /\ mainPc' = "finally"
               /\ error' = <<PageError>>
               /\ log' = IF failAt = "selectDatabase" THEN <<Ev("login", 0, "main")>> ELSE <<>>
               /\ UNCHANGED <<calIdx, results>>
    /\ UNCHANGED <<browser, attempted>>
    /\ UNCHANGED <<svars, cvars, mvars, pvars, nvars, dvars, copying>>

\* for (let i = 0; i < CALENDAR_PATHS.length; i++)
LoopHead ==
    /\ mainPc = "loop"
    /\ IF calIdx <= Len(ExporterCalendars)
       THEN /\ attempted' = Append(attempted, calIdx)
            /\ log' = SinceLastExport(log)
            /\ mainPc' = "ensureLoggedIn"
       ELSE /\ mainPc' = "summary"
            /\ UNCHANGED <<attempted, log>>
    /\ UNCHANGED <<calIdx, results, browser, error>>
    /\ UNCHANGED <<svars, cvars, mvars, pvars, nvars, dvars, copying>>

\* await ensureLoggedIn(page)
EnsureLoggedIn ==
    /\ mainPc = "ensureLoggedIn"
    /\ \E a \in EnsureAnswers :
          LET r == ensureLoggedIn(a, calIdx)
          IN  /\ log' = log \o r.events
                        \o (IF r.threw THEN <<Ev("ensureLoggedIn threw", calIdx, a.failAt)>>
                            ELSE <<>>)
              /\ error' = r.message
              /\ mainPc' = IF r.threw THEN "catch" ELSE "processCalendar"
    /\ UNCHANGED <<calIdx, results, browser, attempted>>
    /\ UNCHANGED <<svars, cvars, mvars, pvars, nvars, dvars, copying>>

\* await processCalendar(...); results.successful.push(calendarPath.name);
\* then cleanSessionAndRelogin unless the calendar is the last one.
ProcessCalendar ==
    /\ mainPc = "processCalendar"
    /\ \E a \in ProcessAnswers :
          LET calendarPath == ExporterCalendars[calIdx]
              r == processCalendar(a, calendarPath, calIdx)
          IN  /\ log' = log \o r.events
                        \o (IF r.threw THEN <<>>
                            ELSE <<Ev("successful.push", calIdx, calendarPath.name)>>)
              /\ error' = r.message
              /\ IF r.threw
                 THEN mainPc' = "catch" /\ UNCHANGED <<results, calIdx>>
                 ELSE /\ results' = [results EXCEPT
                                        !.successful = Append(@, calendarPath.name)]
                      /\ IF calIdx < Len(ExporterCalendars)
                         THEN mainPc' = "cleanSessionAndRelogin" /\ UNCHANGED calIdx
                         ELSE mainPc' = "loop" /\ calIdx' = calIdx + 1
    /\ UNCHANGED <<browser, attempted>>
    /\ UNCHANGED <<svars, cvars, mvars, pvars, nvars, dvars, copying>>

\* await cleanSessionAndRelogin(page), inside the same try block.
CleanSessionAndRelogin ==
    /\ mainPc = "cleanSessionAndRelogin"
    /\ \E failAt \in 0..Len(CleanCalls) :
          LET r == cleanSessionAndRelogin(failAt, calIdx)
          IN  /\ log' = log \o r.events
              /\ error' = r.message
              /\ IF r.threw
                 THEN mainPc' = "catch" /\ UNCHANGED calIdx
                 ELSE mainPc' = "loop" /\ calIdx' = calIdx + 1
    /\ UNCHANGED <<results, browser, attempted>>
    /\ UNCHANGED <<svars, cvars, mvars, pvars, nvars, dvars, copying>>

\* catch (error) { results.failed.push({ name, error: errorMessage }); ... }
Catch ==
    /\ mainPc = "catch"
    /\ results' = [results EXCEPT
                      !.failed = Append(@, [name |-> ExporterCalendars[calIdx].name,
                                            error |-> error])]
    /\ error' = <<>>
    /\ IF calIdx < Len(ExporterCalendars)
       THEN mainPc' = "recover" /\ UNCHANGED calIdx
       ELSE mainPc' = "loop" /\ calIdx' = calIdx + 1
    /\ UNCHANGED <<browser, attempted, log>>
    /\ UNCHANGED <<svars, cvars, mvars, pvars, nvars, dvars, copying>>

\* try { await page.goto(index.jsp) } catch (recoveryError) { console.error }
Recover ==
    /\ mainPc = "recover"
    /\ \E gotoOk \in BOOLEAN :
          /\ mainPc' = AfterRecovery(gotoOk)
          /\ error' = IF AfterRecovery(gotoOk) = "loop" THEN <<>> ELSE <<PageError>>
          /\ calIdx' = IF AfterRecovery(gotoOk) = "loop" THEN calIdx + 1 ELSE calIdx
          /\ log' = log \o <<Ev("goto index", calIdx, IF gotoOk THEN "recovered" ELSE "threw")>>
    /\ UNCHANGED <<results, browser, attempted>>
    /\ UNCHANGED <<svars, cvars, mvars, pvars, nvars, dvars, copying>>

\* The summary is printed and the try block ends.
Summary ==
    /\ mainPc = "summary"
    /\ mainPc' = "finally"
    /\ UNCHANGED <<calIdx, results, browser, error, attempted, log>>
    /\ UNCHANGED <<svars, cvars, mvars, pvars, nvars, dvars, copying>>

\* finally { await browser.close() }; main's promise then resolves, or
\* rejects with the error the outer catch rethrew.
Finally ==
    /\ mainPc = "finally"
    /\ browser' = CloseBrowser(browser, error)
    /\ mainPc' = IF error = <<>> THEN "resolved" ELSE "rejected"
    /\ UNCHANGED <<calIdx, results, error, attempted, log>>
    /\ UNCHANGED <<svars, cvars, mvars, pvars, nvars, dvars, copying>>

InitExporter ==
    /\ mainPc = "start"
    /\ calIdx = 0
    /\ results = NoResults
    /\ browser = "none"
    /\ error = <<>>
    /\ attempted = <<>>
    /\ log = <<>>
    /\ exportFs = NoExportTree
    /\ req = IdleRequest
    /\ resp = NoResponse
    /\ req2 = IdleRequest
    /\ resp2 = NoResponse
    /\ icsFiles = <<>>
    /\ mergedName = ""
    /\ mergedICS = <<>>
    /\ mpc = "off"
    /\ icsText = <<>>
    /\ parsedEvents = <<>>
    /\ ppc = "off"
    /\ NavigateOff /\ ExportPeriodOff /\ CopyOff

NextExporter ==
    \/ Launch
    \/ Setup
    \/ LoopHead
    \/ EnsureLoggedIn
    \/ ProcessCalendar
    \/ CleanSessionAndRelogin
    \/ Catch
    \/ Recover
    \/ Summary
    \/ Finally

SpecExporter == InitExporter /\ [][NextExporter]_vars

\* Every await of main settles: the navigations and the waits carry a
\* timeout, so a step that can be taken is taken.
SpecExporterFair == SpecExporter /\ WF_vars(NextExporter)


---------------------------------------------------------------------------
(* What the claims about the exporter's run speak of. *)

IsPrefix(s, t) == Len(s) <= Len(t) /\ \A k \in 1..Len(s) : s[k] = t[k]

\* The indexes of CALENDAR_PATHS, in configuration order.
ConfiguredOrder == [k \in 1..Len(ExporterCalendars) |-> k]

\* main is past its loop, or ended without entering it.
MainLeftLoop == mainPc \in {"summary", "finally", "resolved", "rejected"}

\* The loop ran to its end.
LoopEnded == MainLeftLoop /\ calIdx = Len(ExporterCalendars) + 1

\* main is inside the iteration of calendar calIdx.
InIteration ==
    mainPc \in {"ensureLoggedIn", "processCalendar", "cleanSessionAndRelogin", "catch", "recover"}

(* C22: the loop enters every calendar of CALENDAR_PATHS once, in           *)
(* configuration order: whatever fails inside an iteration (login check,    *)
(* navigation, export, session cleaning, recovery navigation) main goes on  *)
(* with the next calendar, and once the loop was entered main never ends    *)
(* before all calendars were attempted nor with an error.                   *)
C22_EveryCalendarAttempted ==
    /\ IsPrefix(attempted, ConfiguredOrder)
    /\ InIteration => attempted # <<>> /\ attempted[Len(attempted)] = calIdx
    /\ (MainLeftLoop /\ attempted # <<>>) =>
          /\ attempted = ConfiguredOrder
          /\ error = <<>>
          /\ mainPc # "rejected"

\* Every calendar failed, each at another call, and main resolved.
C22_Witness ==
    /\ mainPc = "resolved"
    /\ attempted = ConfiguredOrder
    /\ Len(results.failed) = 3
    /\ results.failed[1].error = <<"Failed to re-authenticate: ", PageError>>
    /\ results.failed[2].error = <<"Could not find tree node">>
    /\ results.failed[3].error = <<"No ICS file found in download directory">>

HasEvent(events, e) ==
    \E k \in 1..Len(events) : events[k].ev = e.ev /\ events[k].cal = e.cal /\ events[k].arg = e.arg

(* C23: a name is pushed to results.successful only in an iteration in      *)
(* which fs.copyFileSync wrote export/<name>/<name>.ics.                     *)
C23_SuccessOnlyAfterExport ==
    [][results'.successful # results.successful =>
          LET name == ExporterCalendars[calIdx].name
          IN  /\ results'.successful = Append(results.successful, name)
              /\ HasEvent(log', Ev("copyFileSync", calIdx, <<"export", name, name, ".ics">>))]_vars

NamesOf(failed) == [k \in 1..Len(failed) |-> failed[k].name]

Count(names, name) == Cardinality({k \in 1..Len(names) : names[k] = name})

(* C24: when the loop has ended every configured name is once in exactly    *)
(* one of results.successful and results.failed, so the two counts add up   *)
(* to the number of calendars.                                               *)
C24_ResultsPartition ==
    LoopEnded =>
        /\ \A k \in 1..Len(ExporterCalendars) :
              Count(results.successful, ExporterCalendars[k].name)
                 + Count(NamesOf(results.failed), ExporterCalendars[k].name) = 1
        /\ Len(results.successful) + Len(results.failed) = Len(ExporterCalendars)

\* log[i] records the push of a calendar whose file was written just before.
SuccessfulExportAt(i) ==
    /\ i \in 2..Len(log)
    /\ log[i].ev = "successful.push"
    /\ log[i - 1].ev = "copyFileSync"

\* Between log[i] and log[j]: cookies cleared, cache cleared, login, database
\* selection, in this order.
FreshSessionBetween(i, j) ==
    \E a, b, c, d \in (i + 1)..(j - 1) :
        /\ a < b /\ b < c /\ c < d
        /\ log[a].ev = "Network.clearBrowserCookies"
        /\ log[b].ev = "Network.clearBrowserCache"
        /\ log[c].ev = "login"
        /\ log[d].ev = "selectDatabase"

CleanThrewBetween(i, j) ==
    \E k \in (i + 1)..(j - 1) : log[k].ev = "cleanSessionAndRelogin" /\ log[k].arg = "threw"

LastEvent == IF log = <<>> THEN Ev("", 0, "") ELSE log[Len(log)]

EnsureThrew == mainPc = "catch" /\ LastEvent.ev = "ensureLoggedIn threw"

\* processCalendar is about to start only when the last thing ensureLoggedIn
\* did was to see the tree.
TreeObservedBeforeProcess ==
    mainPc = "processCalendar" =>
        /\ LastEvent.ev = "tree observed"
        /\ LastEvent.cal = calIdx

(* C26 as claimed: ensureLoggedIn returns only when the tree was observed,  *)
(* and in every other case the error it throws is 'Failed to                 *)
(* re-authenticate'; processCalendar never starts after it.                  *)
C26_ReturnsOnlyWithTree ==
    /\ TreeObservedBeforeProcess
    /\ EnsureThrew => Head(error) = "Failed to re-authenticate: "

(* C26 as amended: ensureLoggedIn returns only when the tree was observed;  *)
(* in every other case it throws, so that processCalendar is not started:    *)
(* 'Failed to re-authenticate: ...' when a call inside its try block fails,  *)
(* and the page's own error when the first check (the evaluate before the    *)
(* try block) fails.                                                         *)
C26_ReturnsOnlyWithTreeOrThrows ==
    /\ TreeObservedBeforeProcess
    /\ EnsureThrew =>
          IF LastEvent.arg = "evaluate isLoggedIn"
          THEN error = <<PageError>>
          ELSE Head(error) = "Failed to re-authenticate: "

\* The tree never appeared after the re-login: ensureLoggedIn threw.
C26_Witness ==
    /\ EnsureThrew
    /\ LastEvent.arg = "waitForSelector tree"
    /\ error = <<"Failed to re-authenticate: ", PageError>>

(* C28: once the browser is launched, main closes it in the end, on every   *)
(* path: a failed initial login, failed calendars, or full success.          *)
C28_BrowserEventuallyClosed == (browser = "open") ~> (browser = "closed")

\* The initial login failed and the browser was closed.
C28_Witness ==
    /\ browser = "closed"
    /\ mainPc = "rejected"
    /\ attempted = <<>>

---------------------------------------------------------------------------
(* navigateTreePath (pathSelection.ts) on its own.  At step i the page      *)
(* shows one span.x-tree3-node-text that may be the node looked for: its    *)
(* text, whether a parent cell and a .x-tree3-node container are found      *)
(* around it, the src of its joint image, whether the cell holds the joint  *)
(* image, and whether the click calls throw.                                *)

\* Longest path.
MaxPath == 3

NodeNames == <<"Trainees", "UFR Informatique", "M1 MIAGE", "IMMFA1TD", "IMMFA1TD01">>

\* The text of the span for the node called name: the name, the name inside
\* white space, the name followed by something else, or no span at all.
SpanText(form, name) ==
    CASE form = "exact"  -> <<name>>
      [] form = "padded" -> <<SP, name, LF>>
      [] form = "longer" -> <<name, SP, "bis">>
      [] OTHER           -> <<>>

Shown(form, cell, treeNode, joint, cellJoint, evaluateThrows, clickThrows) ==
    [form |-> form, cell |-> cell, treeNode |-> treeNode, joint |-> joint,
     cellJoint |-> cellJoint, evaluateThrows |-> evaluateThrows, clickThrows |-> clickThrows]

NodeAnswers ==
    { Shown("none",   FALSE, FALSE, "none",      FALSE, FALSE, FALSE),
      Shown("longer", TRUE,  TRUE,  "plus",      TRUE,  FALSE, FALSE),
      Shown("padded", TRUE,  TRUE,  "plus",      TRUE,  FALSE, FALSE),
      Shown("exact",  TRUE,  TRUE,  "minus",     TRUE,  FALSE, FALSE),
      Shown("exact",  TRUE,  TRUE,  "elbow-end", TRUE,  FALSE, FALSE),
      Shown("exact",  TRUE,  TRUE,  "none",      FALSE, FALSE, FALSE),
      Shown("exact",  TRUE,  TRUE,  "plus",      TRUE,  TRUE,  FALSE),
      Shown("exact",  TRUE,  TRUE,  "plus",      TRUE,  FALSE, TRUE),
      Shown("exact",  FALSE, TRUE,  "plus",      FALSE, FALSE, FALSE),
      Shown("exact",  TRUE,  FALSE, "plus",      TRUE,  FALSE, FALSE) }

\* span.textContent?.trim() === name
TextMatches(shown, name) == trim(SpanText(shown.form, name)) = <<name>>

\* joint.src includes 'minus' or 'elbow-end'
isExpanded(shown) == shown.joint \in {"minus", "elbow-end"}

\* Lines 186-269 with a click on the cell of every node.
ClickNodeSelectEach(shown, i, isLastNode) ==
    IF shown.clickThrows
    THEN Returned(<<Ev("click cell", i, "page.click threw"), Ev("click cell", i, "cell.click")>>)
    ELSE Returned(<<Ev("click cell", i, "page.click")>>)

\* Lines 186-269: the last node is clicked to select it; another node that
\* is not expanded has its joint image clicked, or its cell when the cell
\* holds no joint image or the evaluate throws.
ClickNode(shown, i, isLastNode) ==
    IF isLastNode
    THEN IF shown.clickThrows
         THEN Returned(<<Ev("click cell", i, "page.click threw"),
                         Ev("click cell", i, "cell.click")>>)
         ELSE Returned(<<Ev("click cell", i, "page.click")>>)
    ELSE IF isExpanded(shown) THEN Returned(<<>>)
    ELSE IF shown.evaluateThrows \/ ~shown.cellJoint
         THEN IF shown.clickThrows
              THEN Threw(<<PageError>>, <<Ev("click cell", i, "page.click threw")>>)
              ELSE Returned(<<Ev("click cell", i, "page.click")>>)
    ELSE Returned(<<Ev("click joint", i, "jointImg.click")>>)

\* for (let i = 0; i < pathNodes.length; i++) { ... }
RECURSIVE NavigateFrom(_, _, _, _)
NavigateFrom(nodes, shown, i, events) ==
    IF i > Len(nodes) THEN Returned(events)
    ELSE LET nodeName == nodes[i]
             lookup == events \o <<Ev("look up", i, nodeName)>>
         IN  IF ~TextMatches(shown[i], nodeName)
             THEN Threw(<<"Timeout waiting for tree node: ", nodeName>>, lookup)
             ELSE IF ~shown[i].cell \/ ~shown[i].treeNode
             THEN Threw(<<"Could not find tree node: ", nodeName>>, lookup)
             ELSE LET c == ClickNode(shown[i], i, i = Len(nodes))
                      done == lookup \o <<Ev("found", i, nodeName)>> \o c.events
                  IN  IF c.threw THEN Threw(c.message, done)
                      ELSE NavigateFrom(nodes, shown, i + 1, done)

\* navigateTreePath(page, pathNodes): it first waits for the tree.
navigateTreePath(nodes, shown, treeReady) ==
    IF ~treeReady THEN Threw(<<PageError>>, <<>>)
    ELSE NavigateFrom(nodes, shown, 1, <<>>)

InitNavigate ==
    /\ \E n \in 1..MaxPath :
          /\ pathNodes = [k \in 1..n |-> NodeNames[k + Len(NodeNames) - n]]
          /\ treeShown \in [1..n -> NodeAnswers]
    /\ navigated = Returned(<<>>)
    /\ npc = "call"
    /\ ExporterOff /\ ExportPeriodOff /\ CopyOff
    /\ exportFs = NoExportTree
    /\ req = IdleRequest
    /\ resp = NoResponse
    /\ req2 = IdleRequest
    /\ resp2 = NoResponse
    /\ icsFiles = <<>>
    /\ mergedName = ""
    /\ mergedICS = <<>>
    /\ mpc = "off"
    /\ icsText = <<>>
    /\ parsedEvents = <<>>
    /\ ppc = "off"

CallNavigateTreePath ==
    /\ npc = "call"
    /\ \E treeReady \in BOOLEAN :
          navigated' = navigateTreePath(pathNodes, treeShown, treeReady)
    /\ npc' = "settled"
    /\ UNCHANGED <<pathNodes, treeShown>>
    /\ UNCHANGED <<svars, cvars, mvars, pvars, evars, dvars, copying>>

NextNavigate == CallNavigateTreePath

SpecNavigate == InitNavigate /\ [][NextNavigate]_vars

\* The calls navigateTreePath made, and those of one kind.
NavEvents == navigated.events

EventsOf(kind) == SelectSeq(NavEvents, LAMBDA e : e.ev = kind)

\* Node i was found, and expanded or clicked, before position k of the calls.
HandledBefore(i, k) ==
    /\ \E f \in 1..(k - 1) : NavEvents[f].ev = "found" /\ NavEvents[f].cal = i
    /\ \/ isExpanded(treeShown[i])
       \/ \E c \in 1..(k - 1) :
             NavEvents[c].ev \in {"click joint", "click cell"} /\ NavEvents[c].cal = i

\* The nodes are looked up in path order, each after the one before it was
\* found and, unless expanded, clicked; a node that is not found ends the
\* call with an error that names it, and nothing is made after that look-up.
InOrderAndNamed ==
    npc = "settled" =>
        /\ \A k \in 1..Len(EventsOf("look up")) : EventsOf("look up")[k].cal = k
        /\ \A k \in 1..Len(NavEvents) :
              (NavEvents[k].ev = "look up" /\ NavEvents[k].cal > 1)
                  => HandledBefore(NavEvents[k].cal - 1, k)
        /\ \A i \in 1..Len(pathNodes) :
              (NavEvents # <<>> /\ NavEvents[Len(NavEvents)].ev = "look up"
                                /\ NavEvents[Len(NavEvents)].cal = i)
                  => /\ navigated.threw
                     /\ navigated.message[2] = pathNodes[i]
                     /\ \A k \in 1..Len(NavEvents) : NavEvents[k].cal <= i
        /\ \A i \in 1..Len(pathNodes) :
              (\E k \in 1..Len(NavEvents) : NavEvents[k].ev = "look up" /\ NavEvents[k].cal = i)
                  => (TextMatches(treeShown[i], pathNodes[i])
                        <=> \E k \in 1..Len(NavEvents) :
                               NavEvents[k].ev = "found" /\ NavEvents[k].cal = i)
                     \/ ~treeShown[i].cell \/ ~treeShown[i].treeNode

---------------------------------------------------------------------------
(* The export period of exportCalendar (the lines from 'Calculate target    *)
(* date' to the check of the End Date field) on its own.  A date is a year, *)
(* a month counted from 0 as Date.getMonth() does, and a day.  The date     *)
(* picker is the Ext one the code drives: opened by the trigger it shows    *)
(* the month of the field's value, Ctrl+ArrowRight shows the next month     *)
(* (the day clamped to its length), ArrowRight alone moves one day on, and  *)
(* a click on a day cell of the month shown puts that date in the field.    *)
(* The End Date field is taken to hold today's date when the dialog opens,  *)
(* which is what counting the months from today's month relies on.          *)

\* Greatest EXPORT_TIME.
MaxExportTime == 35

\* The years the clock is in; the second one is a leap year.
ClockYears == {2027, 2028}

IsLeapYear(y) == (y % 4 = 0 /\ y % 100 # 0) \/ y % 400 = 0

DaysInMonth(y, m) ==
    IF m = 1 THEN (IF IsLeapYear(y) THEN 29 ELSE 28)
    ELSE IF m \in {3, 5, 8, 10} THEN 30
    ELSE 31

Date(y, m, d) == [year |-> y, month |-> m, day |-> d]

Todays ==
    {Date(y, m, d) : y \in ClockYears, m \in 0..11, d \in 1..31} \cap
    {dt \in [year : ClockYears, month : 0..11, day : 1..31] :
        dt.day <= DaysInMonth(dt.year, dt.month)}

\* new Date(y, m, d) for a day past the end of the month.
RECURSIVE NormalizeDate(_, _, _)
NormalizeDate(y, m, d) ==
    IF d <= DaysInMonth(y, m) THEN Date(y, m, d)
    ELSE NormalizeDate(IF m = 11 THEN y + 1 ELSE y, (m + 1) % 12, d - DaysInMonth(y, m))

\* target.setDate(today.getDate() + daysToAdd)
setDate(date, daysToAdd) == NormalizeDate(date.year, date.month, date.day + daysToAdd)

\* (targetDate.year - todayYear) * 12 + (targetDate.month - todayMonth)
monthsToNavigate(targetDate, now) ==
    (targetDate.year - now.year) * 12 + (targetDate.month - now.month)

\* Ctrl+ArrowRight, times over.
RECURSIVE CtrlArrowRight(_, _)
CtrlArrowRight(active, times) ==
    IF times <= 0 THEN active
    ELSE LET y == IF active.month = 11 THEN active.year + 1 ELSE active.year
             m == (active.month + 1) % 12
             d == IF active.day <= DaysInMonth(y, m) THEN active.day ELSE DaysInMonth(y, m)
         IN  CtrlArrowRight(Date(y, m, d), times - 1)

\* ArrowRight
ArrowRight(active) == NormalizeDate(active.year, active.month, active.day + 1)

monthNames ==
    <<"January", "February", "March", "April", "May", "June", "July", "August",
      "September", "October", "November", "December">>

\* The text of the month button of the picker.
MonthText(active) == <<monthNames[active.month + 1], active.year>>

\* The click on the cell of the month shown whose text is day.toString():
\* the new value of the field (unchanged when there is no such cell).
ClickDay(field, active, day) ==
    IF day <= DaysInMonth(active.year, active.month)
    THEN Date(active.year, active.month, day)
    ELSE field

\* input.value of the End Date field, and `23/12/${targetDate.year}`
FieldValue(field) == <<field.day, "/", field.month + 1, "/", field.year>>

expectedDateStr(targetDate) == <<23, "/", 12, "/", targetDate.year>>

\* The first selection: the months are walked from the picker's month, the
\* month is checked (the picker is opened again when it is not the target's),
\* one more ArrowRight when the month is not December, then the day cell.
SelectDay(field, now, targetDate, reopened) ==
    LET walked  == CtrlArrowRight(field, monthsToNavigate(targetDate, now))
        checked == IF MonthText(walked) = <<monthNames[targetDate.month + 1], targetDate.year>>
                   THEN walked
                   ELSE IF reopened THEN field ELSE walked
        before  == IF checked.month # 11 /\ monthsToNavigate(targetDate, now) > 0
                   THEN ArrowRight(checked)
                   ELSE checked
    IN  ClickDay(field, before, targetDate.day)

\* The check after the selection and its retry: trigger, the same number of
\* Ctrl+ArrowRight, the day cell again.
VerifyEndDate(field, now, targetDate, reopened) ==
    IF FieldValue(field) # expectedDateStr(targetDate) /\ reopened
    THEN ClickDay(field, CtrlArrowRight(field, monthsToNavigate(targetDate, now)),
                  targetDate.day)
    ELSE field

\* exportCalendar from the target date to the end of the check.
selectEndDate(field, now, daysToAdd, reopened) ==
    LET targetDate == setDate(now, daysToAdd)
    IN  VerifyEndDate(SelectDay(field, now, targetDate, reopened), now, targetDate, reopened)

InitExportPeriod ==
    /\ today \in Todays
    /\ exportTime \in 0..MaxExportTime
    /\ endDateField = today
    /\ dpc = "call"
    /\ ExporterOff /\ NavigateOff /\ CopyOff
    /\ exportFs = NoExportTree
    /\ req = IdleRequest
    /\ resp = NoResponse
    /\ req2 = IdleRequest
    /\ resp2 = NoResponse
    /\ icsFiles = <<>>
    /\ mergedName = ""
    /\ mergedICS = <<>>
    /\ mpc = "off"
    /\ icsText = <<>>
    /\ parsedEvents = <<>>
    /\ ppc = "off"

CallSelectEndDate ==
    /\ dpc = "call"
    /\ \E reopened \in BOOLEAN :
          endDateField' = selectEndDate(endDateField, today, exportTime, reopened)
    /\ dpc' = "done"
    /\ UNCHANGED <<today, exportTime>>
    /\ UNCHANGED <<svars, cvars, mvars, pvars, evars, nvars, copying>>

NextExportPeriod == CallSelectEndDate

SpecExportPeriod == InitExportPeriod /\ [][NextExportPeriod]_vars

(* C29: the end date exportCalendar leaves in the End Date field is today's *)
(* date plus EXPORT_TIME days, whatever the date and EXPORT_TIME (another    *)
(* month or year included): the check after the selection keeps it.         *)
C29_EndDateIsTodayPlusExportTime ==
    dpc = "done" => endDateField = setDate(today, exportTime)

---------------------------------------------------------------------------
(* The server while exportCalendar replaces a calendar's file: the steps of *)
(* fs.copyFileSync(sourcePath, targetPath) on an existing target (the       *)
(* target is opened and cut to length 0, then the source is written to it   *)
(* piece by piece) interleave with the lookups of the handler, which runs   *)
(* in another process.                                                      *)

\* export/<name>/ as the exporter left it at its previous run.
ReplaceTree ==
    [ExportTree("ics", "ics", "none", [d \in DatedDirs |-> "none"], "none") EXCEPT
        !.direct["IMMFA1TD01"] =
            [exists |-> TRUE,
             files |-> <<IcsFile(ExportedDoc("IMMFA1TD01", "direct"), TRUE)>>]]

\* The target holds the first written tokens of the source.
TargetFile(source, written) == IcsFile(Slice(source, 1, written), TRUE)

\* copyFileSync opens the target and cuts it to length 0.
CopyTruncate ==
    /\ copying.pc = "idle"
    /\ copying' = [copying EXCEPT !.pc = "writing", !.written = 0]
    /\ exportFs' = [exportFs EXCEPT
                       !.direct[copying.name].files = <<TargetFile(copying.source, 0)>>]
    /\ UNCHANGED <<req, resp, cvars, mvars, pvars, evars, nvars, dvars>>

\* copyFileSync writes a further piece of the source.
CopyWrite ==
    /\ copying.pc = "writing"
    /\ \E n \in 1..(Len(copying.source) - copying.written) :
          /\ copying' = [copying EXCEPT
                            !.written = @ + n,
                            !.pc = IF copying.written + n = Len(copying.source)
                                   THEN "done" ELSE "writing"]
          /\ exportFs' = [exportFs EXCEPT
                             !.direct[copying.name].files =
                                 <<TargetFile(copying.source, copying.written + n)>>]
    /\ UNCHANGED <<req, resp, cvars, mvars, pvars, evars, nvars, dvars>>

InitReplace ==
    /\ exportFs = ReplaceTree
    /\ copying = [pc |-> "idle", name |-> "IMMFA1TD01",
                  source |-> ExportedDoc("IMMFA1TD01", "rewritten"), written |-> 0]
    /\ req = IdleRequest
    /\ resp = NoResponse
    /\ req2 = IdleRequest
    /\ resp2 = NoResponse
    /\ icsFiles = <<>>
    /\ mergedName = ""
    /\ mergedICS = <<>>
    /\ mpc = "off"
    /\ icsText = <<>>
    /\ parsedEvents = <<>>
    /\ ppc = "off"
    /\ ExporterOff /\ NavigateOff /\ ExportPeriodOff

NextReplace ==
    \/ \E pathname \in Pathnames : Receive("GET", pathname)
    \/ AwaitSource
    \/ AwaitSingle
    \/ CopyTruncate
    \/ CopyWrite

SpecReplace == InitReplace /\ [][NextReplace]_vars

(* C30: a request for a calendar whose file the exporter is replacing is    *)
(* answered with the whole previous document or the whole new one, never    *)
(* with a part of a document and never as if there were none.               *)
C30_CompleteDocumentOnly ==
    (CalendarRequestDone /\ req.calendarName = copying.name) =>
        \/ resp = CalendarResponse(ExportedDoc(copying.name, "direct"))
        \/ resp = CalendarResponse(copying.source)

====
